---- MODULE Spec2Model ----
(***************************************************************************)
(* A model of Bento's Entity (src/js/entity.js): the component list, the   *)
(* parent back-reference, the attach / remove protocol and the update and  *)
(* draw traversals, with the hooks of the attached components.             *)
(*                                                                         *)
(* Objects are entities (Ents) and plain components (Plain).  A component  *)
(* list is a sequence over Objs and Null.  Every call and every hook       *)
(* invocation is appended to `log`, which holds the events of the current  *)
(* (or last) top-level call.  The update and draw passes are stepped one   *)
(* loop iteration at a time, so that a running hook can attach to, or      *)
(* remove from, the entity being traversed; the start / destroy / attached *)
(* traversals run with observing hooks and are computed in one step.       *)
(***************************************************************************)
EXTENDS Integers, Sequences, FiniteSets, TLC

VARIABLES components, parent, isAdded, visible, timer, stack, log, depth,
          speed, forced,
          geom, query,
          modal, paused, updateWhenPaused,
          page, gfx

\* The variables of the component tree and of its traversals.
treeVars == <<components, parent, isAdded, visible, timer, stack, log, depth,
              speed, forced>>

\* The geometry of the entities and the last geometry query; the modal
\* component, the pause level of the object manager and the entities'
\* updateWhenPaused; the page the renderer is set up on and the renderers.
others == <<geom, query, modal, paused, updateWhenPaused, page, gfx>>

vars == <<treeVars, others>>

\* ------------------------------------------------------------- universe
Null == "null"
Ents == {"e1", "e2", "e3"}
Plain == {"p1", "p2"}
Objs == Ents \cup Plain

\* The bounds of the model: the longest component list, and the number of
\* attach calls made with force = true.
MaxLen == 3
MaxForce == 1

\* The values of data.speed the scheduler passes.
Speeds == {1, 2}

\* The hooks each object implements.  An Entity used as a component offers
\* the methods of Entity.prototype; p1 implements every hook, p2 has no
\* init and no update.
EntityHooks == {"start", "destroy", "update", "draw", "attached"}
AllHooks == {"init", "attached", "onParentAttached", "start", "destroy",
             "update", "draw", "postDraw"}
HasHook(o, h) ==
    IF o \in Ents THEN h \in EntityHooks
    ELSE IF o = "p1" THEN h \in AllHooks
    ELSE h \in AllHooks \ {"init", "update"}

\* The explored calls attach an object only below an entity of lower rank,
\* so the tree stays acyclic: on a cyclic tree the ancestor loop of attach
\* and the recursion of start / update / draw do not terminate.
Rank == [o \in Objs |->
           CASE o = "e1" -> 1 [] o = "e2" -> 2 [] o = "e3" -> 3
             [] o = "p1" -> 4 [] OTHER -> 5]
Below(this) == {o \in Objs : Rank[o] > Rank[this]}

\* An event: operation op of entity ent (the `this` of the running method,
\* which is also the data.entity a hook sees) on object obj, at slot `at`
\* of ent's list (0 when no slot is involved).
Ev(op, ent, obj, at) == [op |-> op, ent |-> ent, obj |-> obj, at |-> at]

\* ------------------------------------------------------------- helpers
\* components[i] of a JavaScript array: undefined (falsy) past the end.
At(list, i) == IF i >= 1 /\ i <= Len(list) THEN list[i] ELSE Null

\* Array.prototype.splice(i, 1)
Splice(list, i) == SubSeq(list, 1, i - 1) \o SubSeq(list, i + 1, Len(list))

\* The loop of cleanComponents, from index i down to the first slot.
RECURSIVE cleanFrom(_, _)
cleanFrom(list, i) ==
    IF i < 1 THEN list
    ELSE IF list[i] = Null THEN cleanFrom(Splice(list, i), i - 1)
    ELSE cleanFrom(list, i - 1)

\* A forward loop that splices and still steps the index skips the slot
\* that follows each removed one.
RECURSIVE cleanForwardFrom(_, _)
cleanForwardFrom(list, i) ==
    IF i > Len(list) THEN list
    ELSE IF list[i] = Null THEN cleanForwardFrom(Splice(list, i), i + 1)
    ELSE cleanForwardFrom(list, i + 1)

cleanComponentsForward(list) == cleanForwardFrom(list, 1)

cleanComponents(list) == cleanFrom(list, Len(list))

\* Array.prototype.indexOf, 1-based; 0 when absent.
indexOf(list, c) ==
    IF \E i \in 1..Len(list) : list[i] = c
    THEN CHOOSE i \in 1..Len(list) :
            list[i] = c /\ \A j \in 1..(i - 1) : list[j] # c
    ELSE 0

Live(list) == {list[i] : i \in 1..Len(list)} \ {Null}

RECURSIVE Repeat(_, _)
Repeat(s, n) == IF n <= 0 THEN <<>> ELSE s \o Repeat(s, n - 1)

\* ------------------------------------------------------------- traversals
\* The loops of Entity.prototype.start and Entity.prototype.destroy: hook h
\* of every live component that has it, in list order; a component that is
\* an entity runs the same loop over its own list.
RECURSIVE HookPass(_, _, _, _)
HookPass(comps, e, h, i) ==
    IF i > Len(comps[e]) THEN <<>>
    ELSE LET c == comps[e][i] IN
         (IF c # Null /\ HasHook(c, h)
          THEN <<Ev(h, e, c, i)>> \o
               (IF c \in Ents THEN HookPass(comps, c, h, 1) ELSE <<>>)
          ELSE <<>>)
         \o HookPass(comps, e, h, i + 1)

start(comps, e) == HookPass(comps, e, "start", 1)
destroyNothing(comps, e) == <<>>
destroy(comps, e) == HookPass(comps, e, "destroy", 1)

\* Entity.prototype.attached: onParentAttached of every live component.
RECURSIVE attachedFrom(_, _, _)
attachedFrom(comps, e, i) ==
    IF i > Len(comps[e]) THEN <<>>
    ELSE LET c == comps[e][i] IN
         (IF c # Null /\ HasHook(c, "onParentAttached")
          THEN <<Ev("onParentAttached", e, c, i)>> ELSE <<>>)
         \o attachedFrom(comps, e, i + 1)
attached(comps, e) == attachedFrom(comps, e, 1)

\* The frame data object shared by a traversal and the traversals of the
\* child entities it reaches: data is the value of data.entity.
stampIfUnset(data, e) == IF data = Null THEN e ELSE data
\* data.entity = this, the statement before every hook call.
stamp(data, e) == e

\* A hook call as the hook sees it: sees is data.entity at the call.
Seen(op, e, c, at, data) ==
    [op |-> op, ent |-> e, obj |-> c, at |-> at, sees |-> data]

\* One loop of start, destroy, update or draw (step 1, from slot 1) or the
\* postDraw loop (step -1, from the last slot) of entity e on the shared
\* data; a component that is an entity runs its own traversal on it.
RECURSIVE stampedLoop(_, _, _, _, _, _, _)
RECURSIVE stampedPass(_, _, _, _, _)
stampedLoop(comps, vis, e, h, i, step, data) ==
    IF i < 1 \/ i > Len(comps[e]) THEN [events |-> <<>>, data |-> data]
    ELSE LET c == comps[e][i] IN
         IF c # Null /\ HasHook(c, h)
         THEN LET d == stamp(data, e)
                  inner == IF c \in Ents
                           THEN stampedPass(comps, vis, c, h, d)
                           ELSE [events |-> <<>>, data |-> d]
                  rest == stampedLoop(comps, vis, e, h, i + step, step,
                                      inner.data)
              IN [events |-> <<Seen(h, e, c, i, d)>> \o inner.events
                                \o rest.events,
                  data |-> rest.data]
         ELSE stampedLoop(comps, vis, e, h, i + step, step, data)

\* Entity.prototype.start / destroy / update / draw of e on the shared data.
stampedPass(comps, vis, e, h, data) ==
    IF h = "draw"
    THEN IF ~vis[e] THEN [events |-> <<>>, data |-> data]
         ELSE LET d == stampedLoop(comps, vis, e, "draw", 1, 1, data)
                  p == stampedLoop(comps, vis, e, "postDraw",
                                   Len(comps[e]), 0 - 1, d.data)
              IN [events |-> d.events \o p.events, data |-> p.data]
    ELSE stampedLoop(comps, vis, e, h, 1, 1, data)

\* ------------------------------------------------------------- attach
\* child.isAdded is undefined (falsy) on a plain component.
childIsAdded(child) == child \in Ents /\ isAdded[child]

attachRejectedParentOnly(child, force) == ~force /\ parent[child] # Null

\* The test that opens attach.
attachRejected(child, force) ==
    ~force /\ (childIsAdded(child) \/ parent[child] # Null)

\* this.components.push(child)
pushChild(list, child) == Append(list, child)

\* The while loop over the ancestors: one child.start() per live ancestor.
RECURSIVE liveAncestors(_, _)
liveAncestors(par, p) ==
    IF p = Null THEN 0
    ELSE (IF isAdded[p] THEN 1 ELSE 0) + liveAncestors(par, par[p])

\* The number of child.start() calls attach makes.
attachStarts(par, this) ==
    IF isAdded[this] THEN 1
    ELSE liveAncestors(par, IF par[this] # Null THEN par[this] ELSE this)

\* One child.start() call: the hook, and Entity.start when child is an entity.
childStart(comps, this, child, at) ==
    IF HasHook(child, "start")
    THEN <<Ev("start", this, child, at)>> \o
         (IF child \in Ents THEN start(comps, child) ELSE <<>>)
    ELSE <<>>

\* What a call returns that ends with a bare `return;`.
Undefined == "undefined"

startBeforeAttached(init, attachedCalls, starts) ==
    init \o starts \o attachedCalls
\* The hook calls of attach in the order of its statements: child.init(),
\* child.attached({entity: this}), then the child.start() calls.
hooksOfAttach(init, attachedCalls, starts) ==
    init \o attachedCalls \o starts

\* Entity.prototype.attach: the new lists, the new parents, the events and
\* what the call returns.
attach(this, child, force) ==
    LET call == Ev(IF force THEN "attachForce" ELSE "attach", this, child, 0)
    IN
    IF attachRejected(child, force)
    THEN [components |-> components, parent |-> parent,
          events |-> <<call, Ev("error", this, child, 0)>>,
          returned |-> Undefined]
    ELSE LET list == pushChild(components[this], child)
             comps == [components EXCEPT ![this] = list]
             par == [parent EXCEPT ![child] = this]
             at == Len(list)
         IN [components |-> comps, parent |-> par, returned |-> this,
             events |->
                <<call, Ev("append", this, child, at),
                  Ev("setParent", this, child, at)>>
                \o hooksOfAttach(
                      IF HasHook(child, "init")
                      THEN <<Ev("init", this, child, at)>> ELSE <<>>,
                      IF HasHook(child, "attached")
                      THEN <<Ev("attached", this, child, at)>> \o
                           (IF child \in Ents THEN attached(comps, child)
                            ELSE <<>>)
                      ELSE <<>>,
                      Repeat(childStart(comps, this, child, at),
                             attachStarts(par, this)))]

\* ------------------------------------------------------------- remove
keepParent(par, child) == par

\* child.parent = null
clearParent(par, child) == [par EXCEPT ![child] = Null]

\* this.components[index] = null
nullSlot(list, index) == [list EXCEPT ![index] = Null]

\* Entity.prototype.remove: the new lists, the new parents, the events and
\* what the call returns.
remove(this, child) ==
    LET index == indexOf(components[this], child) IN
    IF child = Null
    THEN [components |-> components, parent |-> parent,
          events |-> <<Ev("remove", this, child, 0)>>,
          returned |-> Undefined]
    ELSE IF index = 0
    THEN [components |-> components, parent |-> parent,
          events |-> <<Ev("remove", this, child, 0)>>,
          returned |-> this]
    ELSE [components |-> [components EXCEPT ![this] = nullSlot(@, index)],
          parent |-> clearParent(parent, child),
          returned |-> this,
          events |->
             <<Ev("remove", this, child, 0)>>
             \o (IF HasHook(child, "destroy")
                 THEN <<Ev("destroy", this, child, index)>> \o
                      (IF child \in Ents THEN destroy(components, child)
                       ELSE <<>>)
                 ELSE <<>>)
             \o <<Ev("clearParent", this, child, index),
                  Ev("null", this, child, index)>>]

\* ------------------------------------------------------------- geometry
Vector2(x, y) == [x |-> x, y |-> y]
Rectangle(x, y, w, h) == [x |-> x, y |-> y, width |-> w, height |-> h]

\* An optional value: <<>> when absent (null, undefined), <<v>> when set.
None == <<>>
Some(v) == <<v>>

\* The geometry fields of an entity.
Geometry(id, position, origin, dimension, scale, boundingBox) ==
    [id |-> id, position |-> position, origin |-> origin,
     dimension |-> dimension, scale |-> scale, boundingBox |-> boundingBox]

\* The fields as the constructor leaves them, for the entity constructed
\* n-th (the id counter starts at 0).
constructed(n) ==
    Geometry(n, Vector2(0, 0), Vector2(0, 0), Rectangle(0, 0, 0, 0),
             Some(Vector2(1, 1)), None)

\* scale = this.scale ? this.scale : new Vector2(1, 1)
scaleOf(g) == IF g.scale = None THEN Vector2(1, 1) ELSE g.scale[1]

neverSwap(s, lo, hi) == <<lo, hi>>

\* if (scale.x < 0) { x2 = [x1, x1 = x2][0]; }: the pair <<x1, x2>> after it.
swapIfNegative(s, lo, hi) == IF s < 0 THEN <<hi, lo>> ELSE <<lo, hi>>

originUnscaled(p, o, s) == p - o

\* x1 = this.position.x - this.origin.x * scale.x
lowCorner(p, o, s) == p - o * s

\* x2 = this.position.x + (this.dimension.width - this.origin.x) * scale.x
highCorner(p, o, d, s) == p + (d - o) * s

\* getBoundingBox when no bounding box is set.
derivedBox(g) ==
    LET scale == scaleOf(g)
        xs == swapIfNegative(scale.x,
                 lowCorner(g.position.x, g.origin.x, scale.x),
                 highCorner(g.position.x, g.origin.x, g.dimension.width,
                            scale.x))
        ys == swapIfNegative(scale.y,
                 lowCorner(g.position.y, g.origin.y, scale.y),
                 highCorner(g.position.y, g.origin.y, g.dimension.height,
                            scale.y))
    IN Rectangle(xs[1], ys[1], xs[2] - xs[1], ys[2] - ys[1])

\* Rectangle.clone: a new rectangle with the same fields.
clone(box) == Rectangle(box.x, box.y, box.width, box.height)

signedScale(n) == n

\* Math.abs
abs(n) == IF n < 0 THEN 0 - n ELSE n

\* getBoundingBox when a bounding box is set: the clone, scaled and moved.
explicitBox(g) ==
    LET box == clone(g.boundingBox[1])
        scale == scaleOf(g)
    IN Rectangle(box.x * abs(scale.x) + g.position.x,
                 box.y * abs(scale.y) + g.position.y,
                 box.width * abs(scale.x),
                 box.height * abs(scale.y))

\* Entity.prototype.getBoundingBox
getBoundingBox(g) ==
    IF g.boundingBox = None THEN derivedBox(g) ELSE explicitBox(g)

\* Rectangle.offset: a new rectangle moved by the vector.
offset(box, v) == Rectangle(box.x + v.x, box.y + v.y, box.width, box.height)

\* Rectangle.intersect: the half-open overlap test.
intersect(a, b) ==
    ~(\/ a.x + a.width <= b.x
      \/ a.y + a.height <= b.y
      \/ a.x >= b.x + b.width
      \/ a.y >= b.y + b.height)

\* ------------------------------------------------------------- collidesWith
\* A candidate of the scan: an entity, or an array (an object that has
\* neither an id nor a getBoundingBox).
EntityItem(e) == [kind |-> "entity", ent |-> e, items |-> <<>>]
ArrayItem(list) == [kind |-> "array", ent |-> Null, items |-> list]
Items(list) == [i \in 1..Len(list) |-> EntityItem(list[i])]

\* What collidesWith returns: null, one candidate, or the array of hits.
NullResult == [kind |-> "null", ent |-> Null, items |-> <<>>]
EntityResult(e) == [kind |-> "entity", ent |-> e, items |-> <<>>]
ArrayResult(list) == [kind |-> "array", ent |-> Null, items |-> list]

\* The arguments of a call.  form tells which of them is given: the legacy
\* positional forms (an entity, an array) or a settings object with entity,
\* entities, name or family; target is the entity (or other object) given,
\* list the array given (for name and family: what the object manager
\* holds under it); offset and firstOnly are optional; callback tells
\* whether a callback is given.
Settings(form, target, list, off, firstOnly, callback) ==
    [form |-> form, target |-> target, list |-> list, offset |-> off,
     firstOnly |-> firstOnly, callback |-> callback]

\* Bento.objects.getByName / getByFamily: the entities held under the name.
getByFamily(list) == Items(list)

\* offset = settings.offset || offset
queryOffset(st) == IF st.offset = None THEN Vector2(0, 0) ELSE st.offset[1]

\* firstOnly: true unless a settings object defines it.
queryFirstOnly(st) ==
    IF st.form \in {"legacyEntity", "legacyArray"} \/ st.firstOnly = None
    THEN TRUE
    ELSE st.firstOnly[1]

\* The settings that make collidesWith log a warning and return null.
queryWarns(st) ==
    \/ st.form = "entity" /\ st.target \notin Ents
    \/ st.form = "notArray"

entityCandidatesWrapped(target) == <<ArrayItem(<<target>>)>>

\* array = [settings.entity]
entityCandidates(target) == <<EntityItem(target)>>

\* array = [settings.entities]
entitiesCandidates(list) == <<ArrayItem(list)>>

\* The array the scan runs over.
candidates(st) ==
    CASE st.form = "legacyEntity" -> <<EntityItem(st.target)>>
      [] st.form = "legacyArray" -> Items(st.list)
      [] st.form = "entity" -> entityCandidates(st.target)
      [] st.form = "entities" -> entitiesCandidates(st.list)
      [] st.form \in {"name", "family"} -> getByFamily(st.list)
      [] OTHER -> <<>>

\* if (obj.id && obj.id === this.id) continue;
selfSkipped(G, this, obj) ==
    /\ obj.kind = "entity"
    /\ G[obj.ent].id # 0
    /\ G[obj.ent].id = G[this].id

\* obj.getBoundingBox && box.intersect(obj.getBoundingBox())
hits(G, box, obj) ==
    /\ obj.kind = "entity"
    /\ intersect(box, getBoundingBox(G[obj.ent]))

emptyCollisions == ArrayResult(<<>>)

\* var collisions = null
noCollisions == NullResult

\* collisions = collisions || []; collisions.push(obj)
pushCollision(collisions, e) ==
    IF collisions.kind = "null" THEN ArrayResult(<<e>>)
    ELSE ArrayResult(Append(collisions.items, e))

\* The loop over the array, from index i: what is returned and the
\* candidates the callback was invoked with, in order.
RECURSIVE scan(_, _, _, _, _, _, _, _, _)
scan(G, this, array, box, i, firstOnly, callback, collisions, called) ==
    IF i > Len(array) THEN [result |-> collisions, called |-> called]
    ELSE LET obj == array[i] IN
         IF selfSkipped(G, this, obj)
         THEN scan(G, this, array, box, i + 1, firstOnly, callback,
                   collisions, called)
         ELSE IF hits(G, box, obj)
         THEN LET calls == IF callback THEN Append(called, obj.ent)
                           ELSE called
              IN IF firstOnly
                 THEN [result |-> EntityResult(obj.ent), called |-> calls]
                 ELSE scan(G, this, array, box, i + 1, firstOnly, callback,
                           pushCollision(collisions, obj.ent), calls)
         ELSE scan(G, this, array, box, i + 1, firstOnly, callback,
                   collisions, called)

\* Entity.prototype.collidesWith: the result, the callback invocations and
\* whether a warning was logged.
collidesWith(G, this, st) ==
    IF queryWarns(st)
    THEN [result |-> NullResult, called |-> <<>>, warned |-> TRUE]
    ELSE IF Len(candidates(st)) = 0
    THEN [result |-> NullResult, called |-> <<>>, warned |-> FALSE]
    ELSE LET r == scan(G, this, candidates(st),
                       offset(getBoundingBox(G[this]), queryOffset(st)),
                       1, queryFirstOnly(st), st.callback, noCollisions,
                       <<>>)
         IN [result |-> r.result, called |-> r.called, warned |-> FALSE]

\* What a call returns that ends with a bare `return;`.
UndefinedResult == [kind |-> "undefined", ent |-> Null, items |-> <<>>]

\* !Utils.isArray(array): neither the settings nor settings.other is an
\* array.
groupWarns(st) == st.form = "notArray"

\* offset of collidesWithGroup: deprecated_offset || new Vector2(0, 0) for
\* the old parameters, settings.offset otherwise.
groupOffset(st) ==
    IF st.form = "legacyArray" THEN queryOffset(st) ELSE st.offset[1]

\* Entity.prototype.collidesWithGroup: the result, the callback invocations
\* and whether an error was logged.
collidesWithGroup(G, this, st) ==
    IF groupWarns(st)
    THEN [result |-> UndefinedResult, called |-> <<>>, warned |-> TRUE]
    ELSE IF Len(Items(st.list)) = 0
    THEN [result |-> NullResult, called |-> <<>>, warned |-> FALSE]
    ELSE LET r == scan(G, this, Items(st.list),
                       offset(getBoundingBox(G[this]), groupOffset(st)),
                       1, TRUE, st.callback, noCollisions, <<>>)
         IN [result |-> r.result, called |-> r.called, warned |-> FALSE]

\* ------------------------------------------------------------- collided
\* The plain components implement onParentCollided; Entity.prototype has no
\* such method, so a child entity is passed over.
hasOnParentCollided(c) == c \in Plain

\* What a collision hook sees: the hook event with data.parent.
CollisionEv(op, data, obj, at) ==
    [op |-> op, ent |-> data.entity, obj |-> obj, at |-> at,
     parent |-> data.parent]

\* The loop of Entity.prototype.collided from slot i on.
RECURSIVE collidedFrom(_, _, _, _)
collidedFrom(comps, e, data, i) ==
    IF i > Len(comps[e]) THEN <<>>
    ELSE LET c == comps[e][i] IN
         (IF c # Null /\ hasOnParentCollided(c)
          THEN <<CollisionEv("onParentCollided",
                             [data EXCEPT !.entity = e], c, i)>>
          ELSE <<>>)
         \o collidedFrom(comps, e, data, i + 1)

collidedUnchecked(comps, par, e, data, onCollide) ==
    LET d == [entity |-> e, parent |-> par[e], other |-> Null] IN
    collidedFrom(comps, e, d, 1)
    \o (IF onCollide THEN <<CollisionEv("onCollide", d, d.other, 0)>>
        ELSE <<>>)

\* Entity.prototype.collided(data): data is None or Some(data.other);
\* onCollide tells whether the entity has an onCollide.
collided(comps, par, e, data, onCollide) ==
    IF data = None
    THEN <<Ev("throw", e, Null, 0)>>
    ELSE LET d == [entity |-> e, parent |-> par[e], other |-> data[1]] IN
         collidedFrom(comps, e, d, 1)
         \o (IF onCollide THEN <<CollisionEv("onCollide", d, d.other, 0)>>
             ELSE <<>>)

\* ------------------------------------------------------------- modal
\* The modal components (src/js/components/fill.js, bento/components/modal).
Modals == {"m1", "m2"}

\* The closure of one modal component: settings.pauseLevel and
\* settings.surpressWarnings, the closure variables pauseLevel (target),
\* oldPauseLevel and entity, and the field component.pauseLevel.  `warned`
\* tells whether the last call of start or destroy wrote to the log;
\* `destroyed` whether destroy was called since the last start.
NoModal ==
    [made |-> FALSE, settings |-> None, surpressWarnings |-> FALSE,
     target |-> None, oldPauseLevel |-> None, pauseLevel |-> 0,
     entity |-> Null, warned |-> FALSE, destroyed |-> FALSE]

\* Modal(settings): the closure right after construction.
Modal(pauseLevel, surpressWarnings) ==
    [NoModal EXCEPT !.made = TRUE, !.settings = pauseLevel,
                    !.surpressWarnings = surpressWarnings,
                    !.target = pauseLevel]

\* pauseLevel < oldPauseLevel: false when the target is undefined.
lowerThan(pauseLevel, oldPauseLevel) ==
    /\ pauseLevel # None
    /\ pauseLevel[1] < oldPauseLevel

sameLevel(oldPauseLevel) == oldPauseLevel
\* oldPauseLevel + 1, the automatic level.
nextLevel(oldPauseLevel) == oldPauseLevel + 1

\* pauseLevel || (oldPauseLevel + 1): undefined and 0 are falsy.
orNextLevel(pauseLevel, oldPauseLevel) ==
    IF pauseLevel = None \/ pauseLevel = Some(0)
    THEN nextLevel(oldPauseLevel)
    ELSE pauseLevel[1]

\* component.start() while Bento.objects.isPaused() returns level: the
\* closure after the call and the level handed to Bento.objects.pause.
\* Without an owner, entity.updateWhenPaused throws after the pause is set.
modalStart(md, level) ==
    LET low == lowerThan(md.target, level)
        target == IF low THEN Some(nextLevel(level)) ELSE md.target
        pauseLevel == orNextLevel(target, level)
    IN [modal |-> [md EXCEPT !.oldPauseLevel = Some(level),
                             !.target = target,
                             !.warned = low /\ ~md.surpressWarnings,
                             !.destroyed = FALSE,
                             !.pauseLevel = pauseLevel],
        pause |-> pauseLevel,
        exempt |-> md.entity # Null]

modalDestroyNever(md, level) == None
modalDestroyAlways(md, level) == md.oldPauseLevel
modalDestroyFirst(md, level) ==
    IF level < md.pauseLevel THEN None ELSE md.oldPauseLevel

\* component.destroy() while Bento.objects.isPaused() returns level: the
\* level handed to Bento.objects.pause, or None when the call returns early.
modalDestroy(md, level) ==
    IF level # md.pauseLevel THEN None ELSE md.oldPauseLevel

destroyClears(exempt, md) ==
    IF md.entity = Null THEN exempt ELSE [exempt EXCEPT ![md.entity] = 0]
\* component.destroy() has no assignment to entity.updateWhenPaused: the
\* exemption levels of all entities after the call.
destroyKeeps(exempt, md) == exempt

skipLogged == TRUE
\* // Utils.log('WARNING: pauseLevel changed while a modal is active. ...'):
\* the early return of destroy writes nothing to the log.
skipSilent == FALSE

\* ------------------------------------------------------------- renderers
\* The renderer factories (src/js/renderers/webgl.js): bento/renderers/webgl
\* and bento/renderers/canvas2d.
Backends == {"webgl", "canvas2d"}

\* What the browser offers: window.WebGLRenderingContext, what getContext
\* does for 'webgl' and 'experimental-webgl' ("context", "null", "throws"),
\* window.GlSprites, and the window size in device pixels.
Env(class, webgl, experimental, sprites, width, height) ==
    [class |-> class, webgl |-> webgl, experimental |-> experimental,
     sprites |-> sprites, windowWidth |-> width, windowHeight |-> height]

\* Utils.isDefined(obj): obj !== void(0)
isDefined(obj) == obj # "undefined"

\* canWebGl: the probe on a canvas of its own, false when anything throws.
canWebGl(env) ==
    /\ env.class
    /\ env.webgl # "throws"
    /\ \/ env.webgl = "context"
       \/ env.experimental = "context"

\* Math.round(n / d) for positive n and d.
round(n, d) == (2 * n + d) \div (2 * d)

\* Math.round(Math.max(window / canvas, 1)) on the shorter side of the
\* window; 1 with settings.smoothing.
pixelSizeOf(env, canvas, smoothing) ==
    IF smoothing THEN 1
    ELSE IF env.windowWidth > env.windowHeight
         THEN IF env.windowHeight < canvas.height THEN 1
              ELSE round(env.windowHeight, canvas.height)
         ELSE IF env.windowWidth < canvas.width THEN 1
              ELSE round(env.windowWidth, canvas.width)

\* Canvas2d(canvas, settings): the renderer named canvas2d; the canvas keeps
\* its size and no accelerated renderer is made.
Canvas2d(canvas) ==
    [name |-> "canvas2d", canvas |-> canvas, glRenderer |-> FALSE,
     threw |-> FALSE]

\* The accelerated branch: the canvas is enlarged, then the SpriteRenderer
\* is made; without the sprite library the constructor call throws.
Accelerated(env, canvas, pixelSize) ==
    [name |-> IF isDefined(env.sprites) THEN "webgl" ELSE "none",
     canvas |-> [width |-> canvas.width * pixelSize,
                 height |-> canvas.height * pixelSize],
     glRenderer |-> isDefined(env.sprites),
     threw |-> ~isDefined(env.sprites)]

probeOnly(env) == canWebGl(env)
\* canWebGl && Utils.isDefined(window.GlSprites)
accelerates(env) == canWebGl(env) /\ isDefined(env.sprites)

\* The factory of bento/renderers/webgl called with (canvas, settings).
WebGl(env, canvas, smoothing) ==
    IF accelerates(env)
    THEN Accelerated(env, canvas, pixelSizeOf(env, canvas, smoothing))
    ELSE Canvas2d(canvas)

\* ---- drawing
\* The bound of the model on the surfaces made by createSurface.
MaxSurfaces == 2

\* The targets a renderer draws with: its original glRenderer / context is
\* target 0, a SpriteRenderer made by createSurface is target k.  The
\* canvases: the canvas the renderer was made for is canvas 0, the
\* newCanvas of the k-th createSurface is canvas k.
TargetIds == 0..MaxSurfaces
Screen == 0

\* Alpha values in halves: 2 is the 1 of colorArray[3] !== 1.
Opaque == 2
Alphas == {1, Opaque}

\* One renderer: the current glRenderer / context, what createSurface
\* returned so far (the target to hand to setContext), for every target its
\* color[3] / globalAlpha and the canvas its context belongs to, and the
\* last draw made.
Renderer(name) ==
    [name |-> name, context |-> Screen, surfaces |-> <<>>,
     alpha |-> [t \in TargetIds |-> Opaque],
     canvas |-> [t \in TargetIds |-> Screen],
     drawn |-> None]

\* A draw that reaches a glRenderer / context.
Draw(op, st, alpha, src, dst) ==
    Some([op |-> op, target |-> st.context,
          canvas |-> st.canvas[st.context], alpha |-> alpha, src |-> src,
          dst |-> dst])

\* renderer.fillRect(color, x, y, w, h) with color[3] = a.  webgl: the
\* color of the glRenderer is replaced by color for the call; canvas2d:
\* globalAlpha is replaced by a for the call unless a is 1, the fill style
\* is opaque.
fillRect(st, a, rect) ==
    [st EXCEPT !.drawn =
        Draw("fillRect", st,
             IF st.name = "webgl" THEN a
             ELSE IF a # Opaque THEN a ELSE st.alpha[st.context],
             rect, rect)]

\* renderer.drawImage(packedImage, sx, sy, sw, sh, x, y, w, h).
drawImage(st, packed, src, dst) ==
    [st EXCEPT !.drawn =
        Draw("drawImage", st, st.alpha[st.context],
             Rectangle(packed.x + src.x, packed.y + src.y, src.width,
                       src.height),
             IF st.name = "webgl"
             THEN Rectangle(dst.x, dst.y, src.width, src.height)
             ELSE dst)]

\* renderer.setOpacity(value)
setOpacity(st, value) == [st EXCEPT !.alpha[st.context] = value]

\* renderer.createSurface(width, height).  webgl: a new SpriteRenderer on
\* canvas.getContext('webgl'), the context of the renderer's canvas;
\* canvas2d: canvas.getContext('2d'), the context the renderer has; the
\* new canvas gets the size and is used for nothing else.
createSurface(st) ==
    LET k == Len(st.surfaces) + 1 IN
    IF st.name = "webgl"
    THEN [st EXCEPT !.surfaces = Append(@, k), !.canvas[k] = Screen,
                    !.alpha[k] = Opaque]
    ELSE [st EXCEPT !.surfaces = Append(@, Screen)]

\* renderer.setContext(ctx) with what the k-th createSurface returned.
setContext(st, k) == [st EXCEPT !.context = st.surfaces[k]]

\* renderer.restoreContext(): glRenderer = original / context = original.
restoreContext(st) == [st EXCEPT !.context = Screen]

\* ------------------------------------------------------------- state
\* components, parent, isAdded, visible: the fields of the entities (parent
\* also of the plain components).  timer[e] is e.timer less its value when
\* the current top-level call began: the entity reads its timer nowhere, so
\* only the increments matter.  stack holds the running update / draw
\* calls, innermost last; log the events of the current top-level call;
\* depth the renderer's saved-state depth; speed is data.speed; forced
\* counts the forced attach calls.
NoTime == [e \in Ents |-> 0]

InitTree ==
    /\ components = [e \in Ents |-> <<>>]
    /\ parent = [o \in Objs |-> Null]
    /\ isAdded = [e \in Ents |-> FALSE]
    /\ visible = [e \in Ents |-> TRUE]
    /\ timer = NoTime
    /\ stack = <<>>
    /\ log = <<>>
    /\ depth = 0
    /\ speed = 0
    /\ forced = 0

\* The order of construction: the id counter gives e1, e2, e3 the ids
\* 0, 1, 2.
inOrder == [e \in Ents |-> CASE e = "e1" -> 0 [] e = "e2" -> 1 [] OTHER -> 2]

\* No geometry query has been made.
NoSettings == Settings("none", Null, <<>>, None, None, FALSE)
NoBox == Rectangle(0, 0, 0, 0)
NoQuery ==
    [op |-> "none", this |-> Null, settings |-> NoSettings,
     result |-> NullResult, box |-> NoBox, called |-> <<>>,
     warned |-> FALSE]

InitGeometry ==
    /\ geom = [e \in Ents |-> constructed(inOrder[e])]
    /\ query = NoQuery

\* No modal component has been made; the game is not paused.
InitPause ==
    /\ modal = [m \in Modals |-> NoModal]
    /\ paused = 0
    /\ updateWhenPaused = [e \in Ents |-> 0]

\* No renderer has been set up; the page has a canvas, and a browser with
\* everything the accelerated renderer needs.
NoRenderer ==
    [name |-> "none", canvas |-> [width |-> 2, height |-> 2],
     glRenderer |-> FALSE, threw |-> FALSE]
NoPage ==
    [env |-> Env(TRUE, "context", "context", "defined", 4, 4),
     smoothing |-> TRUE, canvas |-> NoRenderer.canvas, renderer |-> NoRenderer]

\* One renderer of each back end, given the same calls; `open` holds the
\* surfaces of the setContext calls not yet matched by a restoreContext and
\* `call` the last call made.
NoGfx ==
    [back |-> [b \in Backends |-> Renderer(b)], open |-> <<>>,
     call |-> None]

InitDrawing ==
    /\ page = NoPage
    /\ gfx = NoGfx

Init == InitTree /\ InitGeometry /\ InitPause /\ InitDrawing

Idle == stack = <<>>

\* A call of entity.attach(child, force) from outside any traversal.
Attach(this, child, force) ==
    /\ Idle
    /\ timer' = NoTime
    /\ Len(components[this]) < MaxLen
    /\ force => forced < MaxForce
    /\ forced' = IF force THEN forced + 1 ELSE forced
    /\ LET r == attach(this, child, force) IN
       /\ components' = r.components
       /\ parent' = r.parent
       /\ log' = r.events
    /\ UNCHANGED <<isAdded, visible, stack, depth, speed>>
    /\ UNCHANGED others

\* A call of entity.remove(child) from outside any traversal.
Remove(this, child) ==
    /\ Idle
    /\ timer' = NoTime
    /\ LET r == remove(this, child) IN
       /\ components' = r.components
       /\ parent' = r.parent
       /\ log' = r.events
    /\ UNCHANGED <<isAdded, visible, stack, depth, speed, forced>>
    /\ UNCHANGED others

\* The object manager adds a root entity: it becomes live and is started.
SchedulerAdd(e) ==
    /\ Idle
    /\ timer' = NoTime
    /\ parent[e] = Null
    /\ ~isAdded[e]
    /\ isAdded' = [isAdded EXCEPT ![e] = TRUE]
    /\ log' = <<Ev("add", e, Null, 0)>> \o start(components, e)
    /\ UNCHANGED <<components, parent, visible, stack, depth, speed, forced>>
    /\ UNCHANGED others

\* User code sets entity.visible.
SetVisible(e, v) ==
    /\ Idle
    /\ timer' = NoTime
    /\ visible[e] # v
    /\ visible' = [visible EXCEPT ![e] = v]
    /\ log' = <<Ev("visible", e, Null, 0)>>
    /\ UNCHANGED <<components, parent, isAdded, stack, depth, speed, forced>>
    /\ UNCHANGED others

\* ------------------------------------------------------------- passes
\* A running update or draw call: its entity, the loop it is in, the loop
\* index i and the length l read when the loop began.
Frame(e, phase, i, l) == [ent |-> e, phase |-> phase, i |-> i, l |-> l]
Top == stack[Len(stack)]
Pop == SubSeq(stack, 1, Len(stack) - 1)
SetTop(f) == [stack EXCEPT ![Len(stack)] = f]
InPhase(phase) == ~Idle /\ Top.phase = phase

\* What the body of a running hook of a component of entity e does: nothing,
\* or one attach to e (of a child the pairs R allow), or one remove from e,
\* or it flips e.visible.
Effect(comps, par, vis, events) ==
    [components |-> comps, parent |-> par, visible |-> vis,
     events |-> events]
NoEffect == Effect(components, parent, visible, <<>>)
AttachEffects(R, e) ==
    {Effect(attach(e, x, FALSE).components, attach(e, x, FALSE).parent,
            visible, attach(e, x, FALSE).events) :
       x \in {y \in Objs : /\ <<e, y>> \in R
                           /\ Len(components[e]) < MaxLen
                           /\ ~attachRejected(y, FALSE)}}
RemoveEffects(e) ==
    {Effect(remove(e, x).components, remove(e, x).parent, visible,
            remove(e, x).events) :
       x \in Live(components[e])}
VisibleEffects(e) ==
    {Effect(components, parent, [visible EXCEPT ![e] = ~@],
            <<Ev("visible", e, Null, 0)>>)}
\* The effects of the kinds K ("attach", "remove", "visible").
HookEffects(R, K, e) ==
    {NoEffect}
    \cup (IF "attach" \in K THEN AttachEffects(R, e) ELSE {})
    \cup (IF "remove" \in K THEN RemoveEffects(e) ELSE {})
    \cup (IF "visible" \in K THEN VisibleEffects(e) ELSE {})

\* A hook of component c at slot f.i runs, with one of the effects.
RunHook(R, K, f, h, c) ==
    \E eff \in HookEffects(R, K, f.ent) :
        /\ log' = log \o <<Ev(h, f.ent, c, f.i)>> \o eff.events
        /\ components' = eff.components
        /\ parent' = eff.parent
        /\ visible' = eff.visible

\* ---- update
loopMoreLive(f) == f.i <= Len(components[f.ent])

\* The test of the update and draw loops: i < l, l read before the loop.
loopMore(f) == f.i <= f.l

updateEnterIfExempt(e) ==
    [events |-> <<Ev("updateCall", e, Null, Len(components[e]))>>,
     frame |-> Frame(e, "update", 1,
                     IF updateWhenPaused[e] >= paused
                     THEN Len(components[e]) ELSE 0)]

\* The events and the frame that open Entity.prototype.update.
updateEnter(e) ==
    [events |-> <<Ev("updateCall", e, Null, Len(components[e]))>>,
     frame |-> Frame(e, "update", 1, Len(components[e]))]

\* entity.update(data) called by the scheduler or by user code.
CallUpdate(e, s) ==
    /\ Idle
    /\ timer' = NoTime
    /\ stack' = <<updateEnter(e).frame>>
    /\ log' = updateEnter(e).events
    /\ speed' = s
    /\ UNCHANGED <<components, parent, isAdded, visible, depth, forced>>
    /\ UNCHANGED others

\* One iteration of the loop of Entity.prototype.update over a slot that is
\* null or holds a component without an update hook.
UpdateSkip ==
    /\ InPhase("update") /\ loopMore(Top)
    /\ LET c == At(components[Top.ent], Top.i) IN
       c = Null \/ ~HasHook(c, "update")
    /\ stack' = SetTop([Top EXCEPT !.i = @ + 1])
    /\ UNCHANGED <<components, parent, isAdded, visible, timer, log, depth,
                   speed, forced>>
    /\ UNCHANGED others

\* One iteration over a plain component: its update hook runs.
UpdateHook(R, K) ==
    /\ InPhase("update") /\ loopMore(Top)
    /\ LET c == At(components[Top.ent], Top.i) IN
       /\ c \in Plain /\ HasHook(c, "update")
       /\ RunHook(R, K, Top, "update", c)
    /\ stack' = SetTop([Top EXCEPT !.i = @ + 1])
    /\ UNCHANGED <<isAdded, timer, depth, speed, forced>>
    /\ UNCHANGED others

\* One iteration over a component that is an entity: its update is entered.
UpdateChild ==
    /\ InPhase("update") /\ loopMore(Top)
    /\ LET c == At(components[Top.ent], Top.i) IN
       /\ c \in Ents
       /\ log' = log \o <<Ev("update", Top.ent, c, Top.i)>>
                     \o updateEnter(c).events
       /\ stack' = Append(SetTop([Top EXCEPT !.i = @ + 1]),
                          updateEnter(c).frame)
    /\ UNCHANGED <<components, parent, isAdded, visible, timer, depth, speed,
                   forced>>
    /\ UNCHANGED others

addTimerPerSlot(t, s, f) == t + s * f.l

\* this.timer += data.speed
addTimer(t, s, f) == t + s

\* After the loop: the timer.
UpdateTimer ==
    /\ InPhase("update") /\ ~loopMore(Top)
    /\ timer' = [timer EXCEPT ![Top.ent] = addTimer(@, speed, Top)]
    /\ log' = log \o <<Ev("timer", Top.ent, Null, 0)>>
    /\ stack' = SetTop([Top EXCEPT !.phase = "clean"])
    /\ UNCHANGED <<components, parent, isAdded, visible, depth, speed,
                   forced>>
    /\ UNCHANGED others

\* Then cleanComponents(this), and update returns.
UpdateClean ==
    /\ InPhase("clean")
    /\ components' = [components EXCEPT ![Top.ent] = cleanComponents(@)]
    /\ log' = log \o <<Ev("clean", Top.ent, Null, 0)>>
    /\ stack' = Pop
    /\ UNCHANGED <<parent, isAdded, visible, timer, depth, speed, forced>>
    /\ UNCHANGED others

\* ---- draw
\* transform.draw saves the renderer state, transform.postDraw restores it.
transformDraw(d) == d + 1
transformPostDraw(d) == d - 1

drawEntersAlways(e) == TRUE

\* if (!this.visible) return;
drawEnters(e) == visible[e]

\* The events, the frames and the renderer depth after entity e's draw is
\* called with the frames `rest` running.
drawEnter(e, rest) ==
    LET call == Ev("drawCall", e, Null, Len(components[e])) IN
    IF drawEnters(e)
    THEN [events |-> <<call, Ev("transformDraw", e, Null, 0)>>,
          stack |-> Append(rest, Frame(e, "draw", 1, Len(components[e]))),
          depth |-> transformDraw(depth)]
    ELSE [events |-> <<call>>, stack |-> rest, depth |-> depth]

\* entity.draw(data) called by the scheduler or by user code.
CallDraw(e) ==
    /\ Idle
    /\ timer' = NoTime
    /\ stack' = drawEnter(e, <<>>).stack
    /\ depth' = drawEnter(e, <<>>).depth
    /\ log' = drawEnter(e, <<>>).events
    /\ UNCHANGED <<components, parent, isAdded, visible, speed, forced>>
    /\ UNCHANGED others

DrawSkip ==
    /\ InPhase("draw") /\ loopMore(Top)
    /\ LET c == At(components[Top.ent], Top.i) IN
       c = Null \/ ~HasHook(c, "draw")
    /\ stack' = SetTop([Top EXCEPT !.i = @ + 1])
    /\ UNCHANGED <<components, parent, isAdded, visible, timer, log, depth,
                   speed, forced>>
    /\ UNCHANGED others

DrawHook(R, K) ==
    /\ InPhase("draw") /\ loopMore(Top)
    /\ LET c == At(components[Top.ent], Top.i) IN
       /\ c \in Plain /\ HasHook(c, "draw")
       /\ RunHook(R, K, Top, "draw", c)
    /\ stack' = SetTop([Top EXCEPT !.i = @ + 1])
    /\ UNCHANGED <<isAdded, timer, depth, speed, forced>>
    /\ UNCHANGED others

\* A component that is an entity: its draw is called.
DrawChild ==
    /\ InPhase("draw") /\ loopMore(Top)
    /\ LET c == At(components[Top.ent], Top.i)
           r == drawEnter(c, SetTop([Top EXCEPT !.i = @ + 1]))
       IN /\ c \in Ents
          /\ log' = log \o <<Ev("draw", Top.ent, c, Top.i)>> \o r.events
          /\ stack' = r.stack
          /\ depth' = r.depth
    /\ UNCHANGED <<components, parent, isAdded, visible, timer, speed,
                   forced>>
    /\ UNCHANGED others

\* The first index of the postDraw loop: components.length - 1, read anew.
postDrawFirst(f) == Len(components[f.ent])

\* The draw loop is over: the postDraw loop starts.
DrawEnd ==
    /\ InPhase("draw") /\ ~loopMore(Top)
    /\ stack' = SetTop([Top EXCEPT !.phase = "postDraw",
                                   !.i = postDrawFirst(Top)])
    /\ log' = log \o <<Ev("postDrawLoop", Top.ent, Null, postDrawFirst(Top))>>
    /\ UNCHANGED <<components, parent, isAdded, visible, timer, depth, speed,
                   forced>>
    /\ UNCHANGED others

PostDrawSkip ==
    /\ InPhase("postDraw") /\ Top.i >= 1
    /\ LET c == At(components[Top.ent], Top.i) IN
       c = Null \/ ~HasHook(c, "postDraw")
    /\ stack' = SetTop([Top EXCEPT !.i = @ - 1])
    /\ UNCHANGED <<components, parent, isAdded, visible, timer, log, depth,
                   speed, forced>>
    /\ UNCHANGED others

PostDrawHook(R, K) ==
    /\ InPhase("postDraw") /\ Top.i >= 1
    /\ LET c == At(components[Top.ent], Top.i) IN
       /\ c # Null /\ HasHook(c, "postDraw")
       /\ RunHook(R, K, Top, "postDraw", c)
    /\ stack' = SetTop([Top EXCEPT !.i = @ - 1])
    /\ UNCHANGED <<isAdded, timer, depth, speed, forced>>
    /\ UNCHANGED others

drawLeavesIfVisible(e) == visible[e]

\* this.transform.postDraw(data) closes every draw that passed the test.
drawLeaves(e) == TRUE

\* After the postDraw loop: transform.postDraw, and draw returns.
PostDrawEnd ==
    /\ InPhase("postDraw") /\ Top.i < 1
    /\ IF drawLeaves(Top.ent)
       THEN /\ depth' = transformPostDraw(depth)
            /\ log' = log \o <<Ev("transformPostDraw", Top.ent, Null, 0)>>
       ELSE UNCHANGED <<depth, log>>
    /\ stack' = Pop
    /\ UNCHANGED <<components, parent, isAdded, visible, timer, speed,
                   forced>>
    /\ UNCHANGED others

\* ---- hooks that throw
resumeAfter(st) == [st EXCEPT ![Len(st)].i = @ + 1]
\* No loop of entity.js sits in a try: an exception thrown by a hook leaves
\* the running update or draw and every update or draw that called it.
abandon(st) == <<>>

\* The hook of component c of the running pass throws.
ThrowFrom(h, c) ==
    /\ log' = log \o <<Ev(h, Top.ent, c, Top.i),
                        Ev("throw", Top.ent, c, Top.i)>>
    /\ stack' = abandon(stack)
    /\ UNCHANGED <<components, parent, isAdded, visible, timer, depth, speed,
                   forced>>
    /\ UNCHANGED others

UpdateThrow ==
    /\ InPhase("update") /\ loopMore(Top)
    /\ LET c == At(components[Top.ent], Top.i) IN
       /\ c \in Plain /\ HasHook(c, "update")
       /\ ThrowFrom("update", c)

\* One draw pass is left by an exception: the renderer state it saved is
\* never restored, so every later pass starts above depth 0.
DrawThrow ==
    /\ InPhase("draw") /\ loopMore(Top)
    /\ depth = Len(stack)
    /\ LET c == At(components[Top.ent], Top.i) IN
       /\ c \in Plain /\ HasHook(c, "draw")
       /\ ThrowFrom("draw", c)

PostDrawThrow ==
    /\ InPhase("postDraw") /\ Top.i >= 1
    /\ depth = Len(stack)
    /\ LET c == At(components[Top.ent], Top.i) IN
       /\ c # Null /\ HasHook(c, "postDraw")
       /\ ThrowFrom("postDraw", c)

\* ------------------------------------------------------------- specifications
\* The calls made from outside a traversal: attach and remove over the pairs
\* R of an entity and a child, with the force flags F.
TreeCalls(R, F) ==
    \/ \E r \in R, force \in F : Attach(r[1], r[2], force)
    \/ \E r \in R : Remove(r[1], r[2])

Pairs(E, O) == {r \in E \X O : r[2] \in Below(r[1])}

UpdateSteps(R, K) ==
    \/ UpdateSkip
    \/ UpdateHook(R, K)
    \/ UpdateChild
    \/ UpdateTimer
    \/ UpdateClean

DrawSteps(R, K) ==
    \/ DrawSkip
    \/ DrawHook(R, K)
    \/ DrawChild
    \/ DrawEnd
    \/ PostDrawSkip
    \/ PostDrawHook(R, K)
    \/ PostDrawEnd

\* Every operation, on the tree e1 > e2 > {p1, p2}; the update hooks attach
\* and remove, the draw hooks only observe.
ChainEnts == {"e1", "e2"}
ChainPairs == {<<"e1", "e2">>, <<"e2", "p1">>, <<"e2", "p2">>}
Next ==
    \/ TreeCalls(ChainPairs, BOOLEAN)
    \/ \E e \in ChainEnts : SchedulerAdd(e)
    \/ \E e \in ChainEnts : CallUpdate(e, 1)
    \/ UpdateSteps(ChainPairs, {"attach", "remove"})
    \/ \E e \in ChainEnts : CallDraw(e)
    \/ DrawSteps(ChainPairs, {})

Spec == Init /\ [][Next]_vars

\* The attach / remove protocol on a chain of three entities.
TreePairs == {<<"e1", "e2">>, <<"e2", "e3">>, <<"e3", "p1">>}
NextTree ==
    \/ TreeCalls(TreePairs, BOOLEAN)
    \/ \E e \in Ents : SchedulerAdd(e)

SpecTree == Init /\ [][NextTree]_vars

\* The update pass, with hooks that attach and remove; no forced attach.
PassEnts == {"e1", "e2"}
PassPairs == Pairs(PassEnts, {"e2", "p1", "p2"})
NextUpdate ==
    \/ TreeCalls(PassPairs, {FALSE})
    \/ \E e \in PassEnts, s \in Speeds : CallUpdate(e, s)
    \/ UpdateSteps(PassPairs, {"attach", "remove"})

SpecUpdate == Init /\ [][NextUpdate]_vars

\* The draw pass, with hooks that attach, remove and hide; no forced attach.
NextDraw ==
    \/ TreeCalls(PassPairs, {FALSE})
    \/ \E e \in PassEnts : \E v \in BOOLEAN : SetVisible(e, v)
    \/ \E e \in PassEnts : CallDraw(e)
    \/ DrawSteps(PassPairs, {"attach", "remove", "visible"})

SpecDraw == Init /\ [][NextDraw]_vars

\* Calls of attach and remove with every kind of argument: a child that is
\* free, one that has a parent, one that is in the list, one that is not,
\* and remove(null).
ReturnPairs == {<<"e1", "e2">>, <<"e1", "p1">>, <<"e2", "p1">>,
                <<"e2", "e3">>}
NextReturn ==
    \/ \E r \in ReturnPairs, force \in BOOLEAN : Attach(r[1], r[2], force)
    \/ \E r \in ReturnPairs \cup {<<"e1", Null>>, <<"e2", Null>>} :
          Remove(r[1], r[2])
    \/ \E e \in {"e1"} : SchedulerAdd(e)

SpecReturn == Init /\ [][NextReturn]_vars

\* A whole traversal of e from outside, on a data object that may carry the
\* stamp of an earlier traversal.
Traverse(e, h, data) ==
    /\ Idle
    /\ timer' = NoTime
    /\ log' = <<Ev("traverse", e, Null, 0)>>
                 \o stampedPass(components, visible, e, h, data).events
    /\ UNCHANGED <<components, parent, isAdded, visible, stack, depth, speed,
                   forced>>
    /\ UNCHANGED others

StampPairs == {<<"e1", "e2">>, <<"e1", "p2">>, <<"e2", "p1">>}
NextStamp ==
    \/ TreeCalls(StampPairs, {FALSE})
    \/ \E e \in {"e1", "e2"}, h \in {"start", "destroy", "update", "draw"},
          data \in {Null, "e3"} :
          Traverse(e, h, data)

SpecStamp == Init /\ [][NextStamp]_vars

\* remove of entities and plain components from a tree three deep, built
\* without forced attach.
RemovePairs == {<<"e1", "e2">>, <<"e2", "e3">>, <<"e2", "p1">>,
                <<"e3", "p2">>}
NextRemove ==
    \/ TreeCalls(RemovePairs, {FALSE})
    \/ \E e \in {"e1"} : SchedulerAdd(e)

SpecRemove == Init /\ [][NextRemove]_vars

\* The update and the draw pass with hooks that may throw.
ThrowEnts == {"e1", "e2"}
ThrowPairs == {<<"e1", "e2">>, <<"e1", "p1">>, <<"e2", "p1">>,
               <<"e2", "p2">>}
NextThrow ==
    \/ TreeCalls(ThrowPairs, {FALSE})
    \/ \E e \in ThrowEnts : CallUpdate(e, 1)
    \/ UpdateSteps(ThrowPairs, {})
    \/ UpdateThrow
    \/ \E e \in ThrowEnts : CallDraw(e)
    \/ DrawSteps(ThrowPairs, {})
    \/ DrawThrow
    \/ PostDrawThrow

SpecThrow == Init /\ [][NextThrow]_vars

\* A tree four entities deep: e1 starts as a component of the entity e0,
\* each of the two added to the game or not (e1 added and then attached to
\* e0 with force, e0 added later); e2, e3 and p1 are attached below.
Root == "e0"
InitDeep ==
    /\ components = [e \in Ents \cup {Root} |->
                       IF e = Root THEN <<"e1">> ELSE <<>>]
    /\ parent = [o \in Objs \cup {Root} |->
                   IF o = "e1" THEN Root ELSE Null]
    /\ \E live \in SUBSET {Root, "e1"} :
          isAdded = [e \in Ents \cup {Root} |-> e \in live]
    /\ visible = [e \in Ents |-> TRUE]
    /\ timer = NoTime
    /\ stack = <<>>
    /\ log = <<>>
    /\ depth = 0
    /\ speed = 0
    /\ forced = 0
    /\ InitGeometry
    /\ InitPause
    /\ InitDrawing

NextDeep ==
    \/ TreeCalls(TreePairs, {FALSE})
    \/ \E e \in {"e2", "e3"} : SchedulerAdd(e)

SpecDeep == InitDeep /\ [][NextDeep]_vars

\* ------------------------------------------------------------- geometry queries
\* entity.getBoundingBox(): the call works on a clone, the fields of the
\* entity stay as they are.
GetBoundingBox(e) ==
    /\ query' = [NoQuery EXCEPT !.op = "getBoundingBox", !.this = e,
                                !.box = getBoundingBox(geom[e])]
    /\ UNCHANGED <<treeVars, geom, modal, paused, updateWhenPaused, page,
                   gfx>>

\* this.collidesWith(settings, offset, callback).  The call changes no
\* field of an entity: a later call would start from the same fields, so
\* one call is made from each choice of the fields.
CollidesWith(this, st) ==
    /\ query = NoQuery
    /\ LET r == collidesWith(geom, this, st) IN
       query' = [NoQuery EXCEPT !.op = "collidesWith", !.this = this,
                                !.settings = st, !.result = r.result,
                                !.called = r.called, !.warned = r.warned]
    /\ UNCHANGED <<treeVars, geom, modal, paused, updateWhenPaused, page,
                   gfx>>

\* The bound of the model on the length of a candidate list.
MaxList == 2

\* Bounding boxes: one entity, with every combination of these fields.
Coords == {0 - 3, 0, 5}
Origins == {0, 2}
Sizes == {0, 4}
Scales == {0 - 2, 0 - 1, 0, 1, 2}
Boxes == {Rectangle(0 - 1, 2, 3, 0), Rectangle(2, 0 - 1, 1, 3)}
Geometries ==
    {Geometry(0, Vector2(px, py), Vector2(ox, oy), Rectangle(0, 0, w, h),
              sc, bb) :
        px \in Coords, py \in Coords, ox \in Origins, oy \in Origins,
        w \in Sizes, h \in Sizes,
        sc \in {None} \cup {Some(Vector2(sx, sy)) : sx \in Scales,
                                                    sy \in Scales},
        bb \in {None} \cup {Some(b) : b \in Boxes}}

InitBox ==
    /\ InitTree
    /\ InitPause
    /\ InitDrawing
    /\ query = NoQuery
    /\ \E g \in Geometries :
          geom = [e \in Ents |-> IF e = "e1" THEN g
                                 ELSE constructed(inOrder[e])]

NextBox == GetBoundingBox("e1")

SpecBox == InitBox /\ [][NextBox]_vars

\* Collisions: three entities of dimension 10 x 10, constructed in any
\* order, e1 at the origin and the others at one of these places.
Places == {Vector2(0, 0), Vector2(5, 5), Vector2(10, 10), Vector2(10, 5),
           Vector2(20, 20)}
Orders == {f \in [Ents -> 0..2] : \A a \in Ents, b \in Ents :
                                     f[a] = f[b] => a = b}
Lists == UNION {[1..n -> Ents] : n \in 0..MaxList}
Offsets == {None, Some(Vector2(5, 5))}
Flags == {None, Some(TRUE), Some(FALSE)}
Queries ==
    {Settings("legacyEntity", t, <<>>, off, None, cb) :
        t \in Ents, off \in Offsets, cb \in BOOLEAN}
    \cup {Settings("legacyArray", Null, l, off, None, cb) :
        l \in Lists, off \in Offsets, cb \in BOOLEAN}
    \cup {Settings("entity", t, <<>>, off, fo, cb) :
        t \in Ents \cup {"p1"}, off \in Offsets, fo \in Flags,
        cb \in BOOLEAN}
    \cup {Settings(form, Null, l, off, fo, cb) :
        form \in {"entities", "family"}, l \in Lists, off \in Offsets,
        fo \in Flags, cb \in BOOLEAN}
    \cup {Settings(form, Null, <<>>, None, None, FALSE) :
        form \in {"notArray", "none"}}

InitCollide ==
    /\ InitTree
    /\ InitPause
    /\ InitDrawing
    /\ query = NoQuery
    /\ \E ids \in Orders, p2 \in Places, p3 \in Places :
          geom = [e \in Ents |->
                    [constructed(ids[e]) EXCEPT
                        !.dimension = Rectangle(0, 0, 10, 10),
                        !.position = CASE e = "e1" -> Vector2(0, 0)
                                       [] e = "e2" -> p2
                                       [] OTHER -> p3]]

NextCollide ==
    /\ query = NoQuery
    /\ \E this \in Ents, st \in Queries : CollidesWith(this, st)

SpecCollide == InitCollide /\ [][NextCollide]_vars

\* entity.collidesWithGroup(settings), or with the old parameters.
CollidesWithGroup(this, st) ==
    /\ query = NoQuery
    /\ LET r == collidesWithGroup(geom, this, st) IN
       query' = [NoQuery EXCEPT !.op = "collidesWithGroup", !.this = this,
                                !.settings = st, !.result = r.result,
                                !.called = r.called, !.warned = r.warned]
    /\ UNCHANGED <<treeVars, geom, modal, paused, updateWhenPaused, page,
                   gfx>>

\* Settings without a target collidesWith recognizes: an entity that is a
\* plain object, entities that is not an array, and no target at all.
Unrecognized ==
    {Settings("entity", "p1", <<>>, off, fo, cb) :
        off \in Offsets, fo \in Flags, cb \in BOOLEAN}
    \cup {Settings(form, Null, <<>>, off, fo, cb) :
        form \in {"notArray", "none"}, off \in Offsets, fo \in Flags,
        cb \in BOOLEAN}

\* What collidesWithGroup is called with: an array, settings with an array
\* as `other`, and something that is not an array.
GroupQueries ==
    {Settings("legacyArray", Null, l, off, None, cb) :
        l \in Lists, off \in Offsets, cb \in BOOLEAN}
    \cup {Settings("other", Null, l, Some(Vector2(5, 5)), None, cb) :
        l \in Lists, cb \in BOOLEAN}
    \cup {Settings("notArray", Null, <<>>, off, None, cb) :
        off \in Offsets, cb \in BOOLEAN}

NextWarn ==
    \/ \E this \in Ents, st \in Unrecognized : CollidesWith(this, st)
    \/ \E this \in Ents, st \in GroupQueries : CollidesWithGroup(this, st)

SpecWarn == InitCollide /\ [][NextWarn]_vars

\* ------------------------------------------------------------- pause levels
MaxPause == 3
Levels == 0..MaxPause

\* Bento.objects.isPaused(): the pause level in effect.
isPaused == paused

\* Bento.objects.pause(level): level becomes the pause level in effect.
pause(level) == paused' = level

\* new Modal({pauseLevel: ..., surpressWarnings: ...}).
MakeModal(m, pauseLevel, surpressWarnings) ==
    /\ ~modal[m].made
    /\ modal' = [modal EXCEPT ![m] = Modal(pauseLevel, surpressWarnings)]
    /\ UNCHANGED <<treeVars, geom, query, paused, updateWhenPaused, page,
                   gfx>>

\* component.attached({entity: e}), called by e.attach(component).
ModalAttached(m, e) ==
    /\ modal[m].made
    /\ modal[m].entity = Null
    /\ modal' = [modal EXCEPT ![m].entity = e]
    /\ UNCHANGED <<treeVars, geom, query, paused, updateWhenPaused, page,
                   gfx>>

\* component.start().
ModalStart(m) ==
    /\ modal[m].made
    /\ LET r == modalStart(modal[m], isPaused) IN
       /\ r.pause <= MaxPause
       /\ modal' = [modal EXCEPT ![m] = r.modal]
       /\ pause(r.pause)
       /\ updateWhenPaused' =
             IF r.exempt
             THEN [updateWhenPaused EXCEPT ![modal[m].entity] = r.pause]
             ELSE updateWhenPaused
    /\ UNCHANGED <<treeVars, geom, query, page, gfx>>

\* component.destroy() of a modal that has been started.
ModalDestroy(m) ==
    /\ modal[m].made
    /\ modal[m].oldPauseLevel # None
    /\ LET level == modalDestroy(modal[m], isPaused) IN
       /\ IF level = None THEN UNCHANGED paused ELSE pause(level[1])
       /\ modal' = [modal EXCEPT ![m].destroyed = TRUE,
                                 ![m].warned = level = None /\ skipSilent]
    /\ updateWhenPaused' = destroyKeeps(updateWhenPaused, modal[m])
    /\ UNCHANGED <<treeVars, geom, query, page, gfx>>

Owners == {"e1", "e2"}
Targets == {None} \cup {Some(n) : n \in Levels}

NextModal ==
    \/ \E m \in Modals, t \in Targets, w \in BOOLEAN : MakeModal(m, t, w)
    \/ \E m \in Modals, e \in Owners : ModalAttached(m, e)
    \/ \E m \in Modals : ModalStart(m)
    \/ \E m \in Modals : ModalDestroy(m)

SpecModal == Init /\ [][NextModal]_vars

\* The hooks of a modal component that is attached as `child` to `this`,
\* applied in the order attach calls them: attached stores the owner, start
\* pauses and exempts the owner.  st holds the closure, the pause level and
\* the exemption levels.
RECURSIVE modalHooks(_, _, _, _)
modalHooks(events, this, child, st) ==
    IF events = <<>> THEN st
    ELSE LET ev == Head(events)
             mine == ev.ent = this /\ ev.obj = child
             r == modalStart(st.modal, st.paused)
             next ==
                IF mine /\ ev.op = "attached"
                THEN [st EXCEPT !.modal.entity = this]
                ELSE IF mine /\ ev.op = "start"
                THEN [modal |-> r.modal, paused |-> r.pause,
                      exempt |-> IF r.exempt
                                 THEN [st.exempt EXCEPT
                                          ![st.modal.entity] = r.pause]
                                 ELSE st.exempt]
                ELSE st
         IN modalHooks(Tail(events), this, child, next)

\* this.attach(p1), where the plain component p1 is the modal component m1.
AttachModal(this) ==
    /\ Idle
    /\ timer' = NoTime
    /\ Len(components[this]) < MaxLen
    /\ modal["m1"].made
    /\ LET r == attach(this, "p1", FALSE)
           st == modalHooks(r.events, this, "p1",
                            [modal |-> modal["m1"], paused |-> isPaused,
                             exempt |-> updateWhenPaused])
       IN /\ st.paused <= MaxPause
          /\ components' = r.components
          /\ parent' = r.parent
          /\ log' = r.events
          /\ modal' = [modal EXCEPT !["m1"] = st.modal]
          /\ pause(st.paused)
          /\ updateWhenPaused' = st.exempt
    /\ UNCHANGED <<isAdded, visible, stack, depth, speed, forced, geom,
                   query, page, gfx>>

AttachEnts == {"e1", "e2"}
AttachPairs == {<<"e1", "e2">>, <<"e2", "p2">>}
NextAttach ==
    \/ TreeCalls(AttachPairs, {FALSE})
    \/ \E e \in AttachEnts : SchedulerAdd(e)
    \/ MakeModal("m1", None, FALSE)
    \/ \E e \in AttachEnts : AttachModal(e)

SpecAttach == Init /\ [][NextAttach]_vars

\* Last-opened-first-closed use of the modals m1, m2, m3, none with an
\* explicit target: they start in this order from any level, no modal
\* starts once one was destroyed, and a modal is destroyed only when every
\* modal started after it has been destroyed.
StackModals == <<"m1", "m2", "m3">>
Started(m) == modal[m].oldPauseLevel # None
Open(m) == Started(m) /\ ~modal[m].destroyed

StackStart(i) ==
    /\ \A j \in 1..(i - 1) : Open(StackModals[j])
    /\ \A j \in i..Len(StackModals) : ~Started(StackModals[j])
    /\ ModalStart(StackModals[i])

StackDestroy(i) ==
    /\ Open(StackModals[i])
    /\ \A j \in (i + 1)..Len(StackModals) : ~Open(StackModals[j])
    /\ ModalDestroy(StackModals[i])

InitStack ==
    /\ InitTree
    /\ InitGeometry
    /\ InitDrawing
    /\ modal = [m \in {StackModals[i] : i \in 1..Len(StackModals)} |->
                  NoModal]
    /\ paused \in 0..1
    /\ updateWhenPaused = [e \in Ents |-> 0]

NextStack ==
    \/ \E i \in 1..Len(StackModals) : MakeModal(StackModals[i], None, FALSE)
    \/ \E i \in 1..Len(StackModals), e \in Owners :
          ModalAttached(StackModals[i], e)
    \/ \E i \in 1..Len(StackModals) : StackStart(i)
    \/ \E i \in 1..Len(StackModals) : StackDestroy(i)

SpecStack == InitStack /\ [][NextStack]_vars

\* ------------------------------------------------------------- frames
\* The object manager updates an object in a frame only when the object's
\* updateWhenPaused is at least the pause level.
updatesWhenPaused(e) == updateWhenPaused[e] >= isPaused

\* One frame of the main loop for the object e the manager holds:
\* e.update(data), unless the pause level keeps e from updating.
ManagerUpdate(e, s) ==
    /\ isAdded[e]
    /\ parent[e] = Null
    /\ updatesWhenPaused(e)
    /\ CallUpdate(e, s)

\* A modal on e1 pauses the game between frames; e2 can be a child of e1
\* or an object of its own, p1 a component of either.
FrameEnts == {"e1", "e2"}
FramePairs == {<<"e1", "e2">>, <<"e1", "p1">>, <<"e2", "p1">>}
NextFrame ==
    \/ TreeCalls(FramePairs, {FALSE})
    \/ \E e \in FrameEnts : SchedulerAdd(e)
    \/ Idle /\ MakeModal("m1", None, FALSE)
    \/ Idle /\ ModalAttached("m1", "e1")
    \/ Idle /\ ModalStart("m1")
    \/ Idle /\ ModalDestroy("m1")
    \/ \E e \in FrameEnts : ManagerUpdate(e, 1)
    \/ UpdateSteps(FramePairs, {})

SpecFrame == Init /\ [][NextFrame]_vars

\* ------------------------------------------------------------- renderer setup
\* Renderer = WebGl(canvas, settings): the factory is called for the canvas
\* of the page; it can be called again.
Setup ==
    /\ page' = [page EXCEPT
                  !.renderer = WebGl(page.env, page.canvas, page.smoothing),
                  !.canvas = WebGl(page.env, page.canvas,
                                   page.smoothing).canvas]
    /\ UNCHANGED <<treeVars, geom, query, modal, paused, updateWhenPaused,
                   gfx>>

GetContexts == {"context", "null", "throws"}
WindowSides == {1, 4, 6}
CanvasSides == {2, 3}
Envs ==
    {Env(c, w, x, g, ww, wh) :
        c \in BOOLEAN, w \in GetContexts, x \in GetContexts,
        g \in {"defined", "undefined"}, ww \in WindowSides,
        wh \in WindowSides}
Pages ==
    {[NoPage EXCEPT !.env = env, !.smoothing = smooth,
                    !.canvas = [width |-> cw, height |-> ch]] :
        env \in Envs, smooth \in BOOLEAN, cw \in CanvasSides,
        ch \in CanvasSides}

InitSetup ==
    /\ InitTree
    /\ InitGeometry
    /\ InitPause
    /\ page \in Pages
    /\ gfx = NoGfx

NextSetup == Setup

SpecSetup == InitSetup /\ [][NextSetup]_vars

\* ------------------------------------------------------------- drawing
\* The bound of the model on the setContext calls open at a time.
MaxOpen == 2

\* The same call made on the renderer of each back end.
Call(name, args, open) ==
    [name |-> name, args |-> args, open |-> open]
both(f(_), call) ==
    [back |-> [b \in Backends |-> f(gfx.back[b])], open |-> call.open,
     call |-> Some(call)]

FillRect(a, rect) ==
    /\ LET f(st) == fillRect(st, a, rect) IN
       gfx' = both(f, Call("fillRect", <<a, rect>>, gfx.open))
    /\ UNCHANGED <<treeVars, geom, query, modal, paused, updateWhenPaused,
                   page>>

DrawImage(packed, src, dst) ==
    /\ LET f(st) == drawImage(st, packed, src, dst) IN
       gfx' = both(f, Call("drawImage", <<packed, src, dst>>, gfx.open))
    /\ UNCHANGED <<treeVars, geom, query, modal, paused, updateWhenPaused,
                   page>>

SetOpacity(value) ==
    /\ LET f(st) == setOpacity(st, value) IN
       gfx' = both(f, Call("setOpacity", <<value>>, gfx.open))
    /\ UNCHANGED <<treeVars, geom, query, modal, paused, updateWhenPaused,
                   page>>

CreateSurface ==
    /\ \A b \in Backends : Len(gfx.back[b].surfaces) < MaxSurfaces
    /\ gfx' = both(createSurface, Call("createSurface", <<>>, gfx.open))
    /\ UNCHANGED <<treeVars, geom, query, modal, paused, updateWhenPaused,
                   page>>

SetContext(k) ==
    /\ Len(gfx.open) < MaxOpen
    /\ \A b \in Backends : k \in 1..Len(gfx.back[b].surfaces)
    /\ LET f(st) == setContext(st, k) IN
       gfx' = both(f, Call("setContext", <<k>>, Append(gfx.open, k)))
    /\ UNCHANGED <<treeVars, geom, query, modal, paused, updateWhenPaused,
                   page>>

\* restoreContext() that matches the last open setContext.
RestoreContext ==
    /\ gfx.open # <<>>
    /\ gfx' = both(restoreContext,
                   Call("restoreContext", <<>>,
                        SubSeq(gfx.open, 1, Len(gfx.open) - 1)))
    /\ UNCHANGED <<treeVars, geom, query, modal, paused, updateWhenPaused,
                   page>>

Fills == {Rectangle(0, 0, 1, 1), Rectangle(1, 2, 2, 1)}
Sources == {Rectangle(0, 0, 1, 1), Rectangle(1, 0, 2, 1)}
Destinations == {Rectangle(0, 0, 1, 1), Rectangle(3, 1, 2, 2)}
Packed == {Vector2(4, 2)}

NextRender ==
    \/ \E a \in Alphas, rect \in Fills : FillRect(a, rect)
    \/ \E packed \in Packed, src \in Sources, dst \in Destinations :
          DrawImage(packed, src, dst)
    \/ \E value \in Alphas : SetOpacity(value)
    \/ CreateSurface
    \/ \E k \in 1..MaxSurfaces : SetContext(k)
    \/ RestoreContext

SpecRender == Init /\ [][NextRender]_vars

\* ------------------------------------------------------------- collisions
\* entity.collided(data) called by the collision system, or without data.
Collided(e, data, onCollide) ==
    /\ Idle
    /\ timer' = NoTime
    /\ log' = <<Ev("collided", e, Null, 0)>>
                 \o collided(components, parent, e, data, onCollide)
    /\ UNCHANGED <<components, parent, isAdded, visible, stack, depth, speed,
                   forced>>
    /\ UNCHANGED others

CollidedPairs ==
    {<<"e1", "e2">>, <<"e2", "e3">>, <<"e2", "p1">>, <<"e2", "p2">>}
NextCollided ==
    \/ TreeCalls(CollidedPairs, {FALSE})
    \/ \E e \in {"e1", "e2"}, data \in {None, Some("e3"), Some("e1")},
          onCollide \in BOOLEAN :
          Collided(e, data, onCollide)

SpecCollided == Init /\ [][NextCollided]_vars

\* ------------------------------------------------------------- properties
\* The events the step adds to the log: a call made from outside a
\* traversal starts the log anew, a step of a traversal appends to it.
NewEvents == IF Idle THEN log' ELSE SubSeq(log', Len(log) + 1, Len(log'))

\* The positions in the log of the events op of entity e.
EventsOf(e, op) == {k \in 1..Len(log) : log[k].ent = e /\ log[k].op = op}

Max(S) == CHOOSE k \in S : \A j \in S : j <= k

\* The slots an object occupies, over all the lists.
Slots(o) ==
    {s \in Ents \X (1..(MaxLen + 1)) :
        s[2] <= Len(components[s[1]]) /\ components[s[1]][s[2]] = o}

NonNull(list) == SelectSeq(list, LAMBDA x : x # Null)

\* C1: attach(child) with force falsy, on a child that has a parent or is
\* added, logs an error and changes nothing: every component list and every
\* parent stay as they were and no hook of the child runs (the log holds the
\* call and the error only).  With force = true the same call appends the
\* child and sets its parent, and logs no error.
AttachRejectsAttached ==
    [][\A this \in Ents, child \in Objs :
          (/\ Idle
           /\ log' # <<>>
           /\ childIsAdded(child) \/ parent[child] # Null)
          =>
          /\ log'[1] = Ev("attach", this, child, 0) =>
                /\ log' = <<Ev("attach", this, child, 0),
                            Ev("error", this, child, 0)>>
                /\ components' = components
                /\ parent' = parent
          /\ log'[1] = Ev("attachForce", this, child, 0) =>
                /\ components'[this] = Append(components[this], child)
                /\ parent'[child] = this
                /\ \A k \in 1..Len(log') : log'[k].op # "error"
      ]_vars

\* A rejected attach of a child that already sits in the entity's list.
AttachRejectedReached ==
    \E this \in Ents, child \in Objs :
        /\ log = <<Ev("attach", this, child, 0), Ev("error", this, child, 0)>>
        /\ parent[child] = this
        /\ Cardinality(Slots(child)) = 1

\* C2: with no forced attach, each object occupies at most one non-null slot
\* of all the lists together; an object in a slot of entity E has parent E;
\* an object in no list has parent null.
SingleParent ==
    \A o \in Objs :
        /\ Cardinality(Slots(o)) <= 1
        /\ \A s \in Slots(o) : parent[o] = s[1]
        /\ Slots(o) = {} => parent[o] = Null

\* After an update pass in which a hook removed a component: a two-level
\* tree, and an object that has been detached.
SingleParentReached ==
    /\ Idle
    /\ log # <<>>
    /\ log[Len(log)].op = "clean"
    /\ \E k \in 1..Len(log) : log[k].op = "null"
    /\ parent["e2"] = "e1"
    /\ parent["p1"] = "e2"
    /\ parent["p2"] = Null

\* C3: a successful attach(child) on an entity that is added, or that has an
\* added ancestor, invokes child.start exactly once, whatever the number of
\* added ancestors.
StartExactlyOnce ==
    \A this \in Ents, child \in Objs :
        (/\ Len(log) >= 2
         /\ log[1].op \in {"attach", "attachForce"}
         /\ log[1].ent = this
         /\ log[1].obj = child
         /\ log[2].op = "append"
         /\ HasHook(child, "start")
         /\ liveAncestors(parent, this) > 0)
        => Len(SelectSeq(log, LAMBDA ev :
                  ev = Ev("start", this, child, log[2].at))) = 1

\* C4: once E.remove(c) has taken c out of E's list, no traversal of E
\* invokes a hook of c until c is attached again (c.parent is E from the
\* attach to the remove: every hook E invokes on c runs while c.parent is
\* E; the destroy call remove itself makes on c is no traversal), and a
\* child attached afterwards is appended at a new index at the end of the
\* list, never placed in a nulled slot.
RemovedNeverVisited ==
    [][\A k \in 1..Len(NewEvents) :
          LET ev == NewEvents[k] IN
          /\ (/\ ev.op \in AllHooks
               /\ ~(k > 1 /\ NewEvents[k - 1].op = "remove"))
              => (parent[ev.obj] = ev.ent \/ parent'[ev.obj] = ev.ent)
          /\ ev.op = "append" =>
                /\ ev.at = Len(components[ev.ent]) + 1
                /\ components'[ev.ent] = Append(components[ev.ent], ev.obj)
      ]_vars

\* C5: remove never shortens a list and never moves another component: it
\* replaces the slot of the removed child by null.  A list changes only by
\* an append, by the nulling of one slot, or at the end of update, where it
\* becomes the sequence of its non-null slots in their order (no null slot
\* is left); draw, start and destroy leave it as it is.
CompactionOnlyInUpdate ==
    [][/\ \A e \in Ents :
            LET old == components[e]
                new == components'[e]
            IN IF NewEvents # <<>>
                  /\ NewEvents[Len(NewEvents)] = Ev("clean", e, Null, 0)
               THEN /\ new = NonNull(old)
                    /\ \A i \in 1..Len(new) : new[i] # Null
               ELSE \/ new = old
                    \/ \E c \in Objs : new = Append(old, c)
                    \/ \E i \in 1..Len(old) :
                          /\ old[i] # Null
                          /\ new = [old EXCEPT ![i] = Null]
       /\ \A k \in 1..Len(NewEvents) :
            LET ev == NewEvents[k] IN
            ev.op = "null" =>
                /\ components[ev.ent][ev.at] = ev.obj
                /\ components'[ev.ent] =
                      [components[ev.ent] EXCEPT ![ev.at] = Null]
      ]_vars

\* An update of e2 has returned: its list had three slots, one of them
\* null, and the two components left keep their order.
CompactedReached ==
    /\ Idle
    /\ log # <<>>
    /\ log[1] = Ev("updateCall", "e2", Null, 3)
    /\ log[Len(log)] = Ev("clean", "e2", Null, 0)
    /\ components["e2"] = <<"p2", "p1">>

\* The position in the log of the call op that opened the running pass of
\* entity e, and the positions of the events op of e in that pass.
PassStart(e, op) == Max(EventsOf(e, op))
InPass(e, call, op) == {k \in EventsOf(e, op) : k > PassStart(e, call)}

\* C6: when the loop of update ends, the update hook of each live component
\* that has one has been invoked exactly once, in ascending list order,
\* with the entity as data.entity; the timer is untouched while the loop
\* runs; after the loop it grows by data.speed once, whatever the number of
\* components; and only then the null slots are compacted.
UpdateOrder ==
    [][/\ \A j \in 1..Len(stack) :
            stack[j].phase = "update" => timer[stack[j].ent] = 0
       /\ InPhase("clean") =>
            LET e == Top.ent
                l == log[PassStart(e, "updateCall")].at
                U == InPass(e, "updateCall", "update")
                T == InPass(e, "updateCall", "timer")
            IN /\ \A j \in U, k \in U : j < k => log[j].at < log[k].at
               /\ \A k \in U :
                     /\ log[k].at \in 1..l
                     /\ HasHook(log[k].obj, "update")
                     /\ components[e][log[k].at] \in {log[k].obj, Null}
               /\ \A i \in 1..l :
                     (components[e][i] # Null
                        /\ HasHook(components[e][i], "update"))
                     => \E k \in U : /\ log[k].at = i
                                     /\ log[k].obj = components[e][i]
               /\ Cardinality(T) = 1
               /\ \A k \in U : \A t \in T : k < t
               /\ timer[e] = speed
               /\ timer'[e] = timer[e]
               /\ NewEvents = <<Ev("clean", e, Null, 0)>>
               /\ \A i \in 1..Len(components'[e]) : components'[e][i] # Null
      ]_vars

\* update(e1) has returned at speed 2: two hooks ran, one slot was skipped.
UpdateOrderReached ==
    /\ Idle
    /\ log # <<>>
    /\ log[1] = Ev("updateCall", "e1", Null, 3)
    /\ log[Len(log)] = Ev("clean", "e1", Null, 0)
    /\ Cardinality(EventsOf("e1", "update")) = 2
    /\ timer["e1"] = 2

\* C9: the structural changes a hook makes during an update pass are
\* deferred.  A component attached to the entity during the pass lands
\* beyond the slots of the pass and is not updated in it; it is still in
\* the list when update returns, and the next pass runs over the whole list.
\* A slot nulled by a remove is not updated afterwards in the pass.  Every
\* component present at the start and not removed is updated exactly once,
\* in list order.
UpdateDefersChanges ==
    [][/\ \A k \in 1..Len(NewEvents) :
            NewEvents[k].op = "updateCall" =>
                NewEvents[k].at = Len(components[NewEvents[k].ent])
       /\ \A e \in Ents :
            (NewEvents # <<>>
               /\ NewEvents[Len(NewEvents)] = Ev("clean", e, Null, 0))
            => Live(components'[e]) = Live(components[e])
       /\ \A e \in Ents :
            NewEvents = <<Ev("timer", e, Null, 0)>> =>
            LET l == log[PassStart(e, "updateCall")].at
                U == InPass(e, "updateCall", "update")
                A == InPass(e, "updateCall", "append")
                N == InPass(e, "updateCall", "null")
            IN /\ \A k \in U : log[k].at <= l
               /\ \A a \in A :
                     /\ log[a].at > l
                     /\ \A k \in U : log[k].at # log[a].at
               /\ \A n \in N : \A k \in U :
                     log[k].at = log[n].at => k < n
               /\ \A i \in 1..l :
                     (components[e][i] # Null
                        /\ HasHook(components[e][i], "update"))
                     => Cardinality({k \in U : log[k].at = i}) = 1
               /\ \A j \in U, k \in U : j < k => log[j].at < log[k].at
      ]_vars

\* update(e1) has returned after a hook attached e2 during the pass: e2 was
\* not updated and is in the list.
AttachDeferredReached ==
    /\ Idle
    /\ log # <<>>
    /\ log[1].op = "updateCall"
    /\ log[1].ent = "e1"
    /\ log[Len(log)] = Ev("clean", "e1", Null, 0)
    /\ \E k \in EventsOf("e1", "append") : log[k].obj = "e2"
    /\ \A k \in EventsOf("e1", "update") : log[k].obj # "e2"
    /\ "e2" \in Live(components["e1"])

\* C7: draw on an entity that is not visible invokes nothing: the call adds
\* no event, pushes nothing and leaves the renderer depth.  On a visible
\* entity the events of the pass are transform.draw, then the draw hooks of
\* the live components in ascending slot order, then the postDraw hooks of
\* the live components in descending slot order, then transform.postDraw.
DrawOrder ==
    [][/\ \A k \in 1..Len(NewEvents) :
            LET ev == NewEvents[k] IN
            ev.op = "drawCall" =>
               IF visible[ev.ent]
               THEN /\ k + 1 = Len(NewEvents)
                    /\ NewEvents[k + 1] = Ev("transformDraw", ev.ent, Null, 0)
                    /\ stack' # <<>>
                    /\ stack'[Len(stack')] = Frame(ev.ent, "draw", 1, ev.at)
                    /\ depth' = depth + 1
               ELSE /\ k = Len(NewEvents)
                    /\ depth' = depth
                    /\ \A j \in 1..Len(stack') : j <= Len(stack) /\
                          stack'[j].ent = stack[j].ent
       /\ (InPhase("postDraw") /\ Top.i < 1) =>
            LET e == Top.ent
                c == PassStart(e, "drawCall")
                l == log[c].at
                D == InPass(e, "drawCall", "draw")
                M == InPass(e, "drawCall", "postDrawLoop")
                P == InPass(e, "drawCall", "postDraw")
                first == log[Max(M)].at
            IN /\ log[c + 1] = Ev("transformDraw", e, Null, 0)
               /\ Cardinality(M) = 1
               /\ \A d \in D : \A m \in M : c + 1 < d /\ d < m
               /\ \A q \in P : \A m \in M : m < q
               /\ \A j \in D, k \in D : j < k => log[j].at < log[k].at
               /\ \A j \in P, k \in P : j < k => log[j].at > log[k].at
               /\ \A d \in D :
                     /\ log[d].at \in 1..l
                     /\ HasHook(log[d].obj, "draw")
                     /\ components[e][log[d].at] \in {log[d].obj, Null}
               /\ \A q \in P :
                     /\ log[q].at \in 1..first
                     /\ HasHook(log[q].obj, "postDraw")
                     /\ components[e][log[q].at] \in {log[q].obj, Null}
               /\ \A i \in 1..l :
                     (components[e][i] # Null
                        /\ HasHook(components[e][i], "draw"))
                     => \E d \in D : /\ log[d].at = i
                                     /\ log[d].obj = components[e][i]
               /\ \A i \in 1..first :
                     (components[e][i] # Null
                        /\ HasHook(components[e][i], "postDraw"))
                     => \E q \in P : /\ log[q].at = i
                                     /\ log[q].obj = components[e][i]
               /\ InPass(e, "drawCall", "transformDraw") = {c + 1}
               /\ InPass(e, "drawCall", "transformPostDraw") = {}
               /\ NewEvents = <<Ev("transformPostDraw", e, Null, 0)>>
      ]_vars

\* draw(e1) has returned: e1 drew p1, then its child e2, which is hidden
\* and drew nothing, then p2; the postDraw hooks ran in reverse.
DrawOrderReached ==
    /\ Idle
    /\ components["e1"] = <<"p1", "e2", "p2">>
    /\ ~visible["e2"]
    /\ log = <<Ev("drawCall", "e1", Null, 3),
               Ev("transformDraw", "e1", Null, 0),
               Ev("draw", "e1", "p1", 1),
               Ev("draw", "e1", "e2", 2),
               Ev("drawCall", "e2", Null, 0),
               Ev("draw", "e1", "p2", 3),
               Ev("postDrawLoop", "e1", Null, 3),
               Ev("postDraw", "e1", "p2", 3),
               Ev("postDraw", "e1", "p1", 1),
               Ev("transformPostDraw", "e1", Null, 0)>>

\* C8: in every draw pass the slots the postDraw loop visits are the slots
\* the draw loop visits, fixed when the pass starts, in reverse: the
\* postDraw loop starts from the last slot of the draw loop, also when a hook
\* attaches or removes a component during the pass.
PostDrawMirrorsDraw ==
    \A k \in 1..Len(log) :
        log[k].op = "postDrawLoop" =>
            log[k].at =
               log[Max({c \in EventsOf(log[k].ent, "drawCall") : c < k})].at

\* C10: the transform.draw and transform.postDraw calls of a draw are
\* balanced and properly nested: the renderer depth is the number of running
\* draw calls and is back at its value when the root draw has returned; an
\* entity's transform.draw precedes, and its transform.postDraw follows,
\* every draw and postDraw call it makes on its components; also when a hook
\* changes the visible flag during the pass.
RECURSIVE Nesting(_, _)
Nesting(k, open) ==
    IF k > Len(log) THEN open
    ELSE LET ev == log[k]
             top == IF open = <<>> THEN Null ELSE open[Len(open)]
         IN CASE ev.op = "transformDraw" -> Nesting(k + 1, Append(open, ev.ent))
              [] ev.op = "transformPostDraw" ->
                    IF top = ev.ent
                    THEN Nesting(k + 1, SubSeq(open, 1, Len(open) - 1))
                    ELSE <<"unbalanced">>
              [] ev.op \in {"draw", "postDraw"} ->
                    IF top = ev.ent THEN Nesting(k + 1, open)
                    ELSE <<"unbalanced">>
              [] OTHER -> Nesting(k + 1, open)

TransformBalanced ==
    /\ depth = Len(stack)
    /\ Idle => depth = 0
    /\ Nesting(1, <<>>) = [j \in 1..Len(stack) |-> stack[j].ent]

\* draw(e1) has returned: e1 and its child e2 both pushed and popped, and a
\* hook changed a visible flag during the pass.
TransformBalancedReached ==
    /\ Idle
    /\ log # <<>>
    /\ log[Len(log)] = Ev("transformPostDraw", "e1", Null, 0)
    /\ EventsOf("e2", "transformPostDraw") # {}
    /\ \E k \in 1..Len(log) : log[k].op = "visible"
    /\ depth = 0

\* The last call was collidesWith and passed the tests of its arguments.
Queried == query.op = "collidesWith" /\ ~query.warned

\* The entities the call was asked to test, in order.
Asked ==
    IF query.settings.form \in {"legacyEntity", "entity"}
    THEN <<query.settings.target>>
    ELSE query.settings.list

\* Candidate m is another entity than the querying one and its bounding box
\* intersects the offset bounding box of the querying entity.
Collides(m) ==
    /\ m # query.this
    /\ intersect(offset(getBoundingBox(geom[query.this]),
                        queryOffset(query.settings)),
                 getBoundingBox(geom[m]))

\* The candidates asked that collide, in order.
Colliding == SelectSeq(Asked, Collides)

InSeq(x, list) == \E i \in 1..Len(list) : list[i] = x

\* C11: collidesWith never reports the querying entity itself, whatever its
\* id: it is not the entity returned, not in the array returned, and the
\* callback is not invoked with it.
NeverCollidesWithSelf ==
    Queried =>
        /\ query.result.ent # query.this
        /\ ~InSeq(query.this, query.result.items)
        /\ ~InSeq(query.this, query.called)

\* C12: collidesWith({entities: L, firstOnly: false}) returns null when L
\* is empty, and an empty array, not null, when L is not empty and no member
\* of L intersects.
EmptyDiffersFromNoHits ==
    (/\ Queried
     /\ query.settings.form = "entities"
     /\ query.settings.firstOnly = Some(FALSE))
    => /\ Asked = <<>> => query.result = NullResult
       /\ (Asked # <<>> /\ Colliding = <<>>)
             => query.result = ArrayResult(<<>>)

\* No candidate asked, the querying entity included when it is asked, has a
\* bounding box that intersects the offset box of the querying entity.
NoneIntersects ==
    \A i \in 1..Len(Asked) :
        ~intersect(offset(getBoundingBox(geom[query.this]),
                          queryOffset(query.settings)),
                   getBoundingBox(geom[Asked[i]]))

\* C12 as amended: with firstOnly false, collidesWith returns null when
\* the list is empty and also when the list is not empty and no member
\* intersects, without invoking the callback; so it does for the candidates
\* found by family.
NoHitsReturnNull ==
    (/\ Queried
     /\ query.settings.form \in {"entities", "family"}
     /\ query.settings.firstOnly = Some(FALSE)
     /\ NoneIntersects)
    => /\ query.result = NullResult
       /\ query.called = <<>>

\* A list of two entities, none of which intersects, was asked with
\* firstOnly false.
NoHitsReached ==
    /\ Queried
    /\ query.settings.form = "entities"
    /\ query.settings.firstOnly = Some(FALSE)
    /\ Len(Asked) = 2
    /\ NoneIntersects
    /\ query.result = NullResult

\* C13: collidesWith scans its candidates in order.  With firstOnly true it
\* returns the first candidate other than itself that intersects, having
\* invoked the callback once, with that candidate, or null when there is
\* none; with firstOnly false it invokes the callback once per intersecting
\* candidate, in order, and returns those candidates in that order.
ScansInOrder ==
    Queried =>
        IF queryFirstOnly(query.settings)
        THEN IF Colliding = <<>>
             THEN query.result = NullResult /\ query.called = <<>>
             ELSE /\ query.result = EntityResult(Colliding[1])
                  /\ query.called =
                        IF query.settings.callback THEN <<Colliding[1]>>
                        ELSE <<>>
        ELSE /\ query.result.kind # "entity"
             /\ query.result.items = Colliding
             /\ query.called =
                   IF query.settings.callback THEN Colliding ELSE <<>>

\* C14: collidesWith({entities: L, offset: o}) yields what the legacy call
\* collidesWith(L, o) yields.
EntitiesAsLegacyArray ==
    (/\ Queried
     /\ query.settings.form = "entities"
     /\ query.settings.firstOnly = None)
    => query.result =
          collidesWith(geom, query.this,
                       [query.settings EXCEPT !.form = "legacyArray"]).result

\* A is wide enough along an axis to reach into B: the open intervals
\* (lo1, lo1 + len1) and (lo2, lo2 + len2) share a point.
Overlap(lo1, len1, lo2, len2) ==
    \E z \in 0..80 :
        /\ 2 * lo1 < z /\ z < 2 * (lo1 + len1)
        /\ 2 * lo2 < z /\ z < 2 * (lo2 + len2)

\* C15: the overlap test is half-open.  For entities A and B of dimension
\* 10 x 10, scale 1 and origin (0, 0), A.collidesWith({entity: B}) returns
\* B when the boxes share an area (A at (0, 0), B at (5, 5)) and null when
\* they do not (B at (10, 10)): boxes that touch along an edge or at a
\* corner do not collide.
HalfOpenOverlap ==
    (/\ Queried
     /\ query.settings.form = "entity"
     /\ query.settings.offset = None
     /\ queryFirstOnly(query.settings)
     /\ query.settings.target # query.this)
    => LET A == geom[query.this]
           B == geom[query.settings.target]
       IN query.result =
             IF /\ Overlap(A.position.x, 10, B.position.x, 10)
                /\ Overlap(A.position.y, 10, B.position.y, 10)
             THEN EntityResult(query.settings.target)
             ELSE NullResult

\* A at (0, 0) asked for B at (10, 10), which touches its corner: null.
TouchingReached ==
    /\ Queried
    /\ query.settings.form = "entity"
    /\ query.settings.offset = None
    /\ query.this = "e1"
    /\ query.settings.target = "e2"
    /\ geom["e2"].position = Vector2(10, 10)
    /\ query.result = NullResult

\* The last call was getBoundingBox: its entity's fields and scale.
Measured == query.op = "getBoundingBox"
Fields == geom[query.this]
ScaleX == IF Fields.scale = None THEN 1 ELSE Fields.scale[1].x
ScaleY == IF Fields.scale = None THEN 1 ELSE Fields.scale[1].y

\* C16: with no bounding box set and a scale positive on both axes,
\* getBoundingBox returns the rectangle of width dimension.width * scale.x
\* and height dimension.height * scale.y at position - origin * scale.
DerivedBoxScaled ==
    (/\ Measured
     /\ Fields.boundingBox = None
     /\ ScaleX > 0
     /\ ScaleY > 0)
    => /\ query.box.width = Fields.dimension.width * ScaleX
       /\ query.box.height = Fields.dimension.height * ScaleY
       /\ query.box.x = Fields.position.x - Fields.origin.x * ScaleX
       /\ query.box.y = Fields.position.y - Fields.origin.y * ScaleY

\* A box derived at scale (2, 1) from an origin that is not the corner.
DerivedBoxReached ==
    /\ Measured
    /\ Fields.boundingBox = None
    /\ Fields.scale = Some(Vector2(2, 1))
    /\ Fields.origin = Vector2(2, 2)
    /\ Fields.dimension.width = 4
    /\ query.box = Rectangle(Fields.position.x - 4, Fields.position.y - 2,
                             8, Fields.dimension.height)

\* C17: with a negative scale on either axis or on both, getBoundingBox
\* returns a rectangle of non-negative width and height, both when the box
\* is derived from the dimension and when a bounding box is set.
NegativeScaleBox ==
    (/\ Measured
     /\ ScaleX < 0 \/ ScaleY < 0)
    => /\ query.box.width >= 0
       /\ query.box.height >= 0

\* A box derived at a scale negative on x only, of positive width.
NegativeScaleReached ==
    /\ Measured
    /\ Fields.boundingBox = None
    /\ ScaleX < 0
    /\ ScaleY > 0
    /\ query.box.width > 0
    /\ query.box.height > 0

ScaleXOf(g) == IF g.scale = None THEN 1 ELSE g.scale[1].x
ScaleYOf(g) == IF g.scale = None THEN 1 ELSE g.scale[1].y

\* C18: with a bounding box set, getBoundingBox returns the stored box with
\* x, y, width and height multiplied by the absolute scale of their axis,
\* moved by position; origin and dimension have no influence; the call
\* leaves the stored box as it is, so a call repeated after it returns the
\* same rectangle.
ExplicitBoxScaled ==
    [][(query'.op = "getBoundingBox" /\ geom[query'.this].boundingBox # None)
       =>
       LET g == geom[query'.this]
           b == g.boundingBox[1]
           ax == IF ScaleXOf(g) < 0 THEN 0 - ScaleXOf(g) ELSE ScaleXOf(g)
           ay == IF ScaleYOf(g) < 0 THEN 0 - ScaleYOf(g) ELSE ScaleYOf(g)
       IN /\ query'.box = Rectangle(b.x * ax + g.position.x,
                                    b.y * ay + g.position.y,
                                    b.width * ax, b.height * ay)
          /\ \A ox \in Origins, oy \in Origins, w \in Sizes, h \in Sizes :
                getBoundingBox([g EXCEPT !.origin = Vector2(ox, oy),
                                         !.dimension = Rectangle(0, 0, w, h)])
                   = query'.box
          /\ geom' = geom
          /\ getBoundingBox(geom'[query'.this]) = query'.box
      ]_vars

\* A set box measured at a negative scale, with an origin and a dimension.
ExplicitBoxReached ==
    /\ Measured
    /\ Fields.boundingBox = Some(Rectangle(2, 0 - 1, 1, 3))
    /\ Fields.scale = Some(Vector2(0 - 2, 2))
    /\ Fields.origin = Vector2(2, 2)
    /\ Fields.dimension = Rectangle(0, 0, 4, 4)
    /\ query.box = Rectangle(4 + Fields.position.x, Fields.position.y - 2,
                             2, 6)

\* C19: when a modal made without a target level starts on its owner while
\* the pause level is C, the pause level becomes C + 1, the component's
\* pauseLevel becomes C + 1 and the owner's updateWhenPaused becomes C + 1.
AutomaticLevelIsNext ==
    [][\A m \in Modals :
         (/\ ModalStart(m)
          /\ modal[m].settings = None
          /\ modal[m].entity # Null)
         => /\ paused' = paused + 1
            /\ modal'[m].pauseLevel = paused + 1
            /\ updateWhenPaused'[modal[m].entity] = paused + 1
      ]_vars

\* A modal without a target that started at pause level 2 on its owner.
AutomaticLevelReached ==
    \E m \in Modals :
        /\ modal[m].settings = None
        /\ modal[m].entity # Null
        /\ modal[m].oldPauseLevel = Some(2)
        /\ modal[m].pauseLevel = 3
        /\ paused = 3
        /\ updateWhenPaused[modal[m].entity] = 3

\* C20: when a modal made with the target level T starts for the first time
\* on its owner while the pause level is C: if T <= C, the warning is logged
\* unless warnings are suppressed and the pause level becomes greater than
\* C; if T > C, the pause level becomes T and no warning is logged.
TargetNotAboveWarns ==
    [][\A m \in Modals :
         (/\ ModalStart(m)
          /\ modal[m].settings # None
          /\ modal[m].oldPauseLevel = None
          /\ modal[m].entity # Null)
         => IF modal[m].settings[1] <= paused
            THEN /\ modal[m].surpressWarnings \/ modal'[m].warned
                 /\ paused' > paused
            ELSE /\ paused' = modal[m].settings[1]
                 /\ ~modal'[m].warned
      ]_vars

\* Modal m was made without a target level.
Automatic(m) == modal[m].settings = None

\* Modal m last started at pause level c and set the pause level to c + 1.
StartedAt(m, c) ==
    /\ modal[m].oldPauseLevel = Some(c)
    /\ modal[m].pauseLevel = c + 1

\* Modal m started at pause level c and modal n started after it, both
\* without a target level.
Overlapping(m, n, c) ==
    /\ m # n
    /\ Automatic(m)
    /\ Automatic(n)
    /\ StartedAt(m, c)
    /\ StartedAt(n, c + 1)

\* The steps of the nested scenario up to the destroy of the first modal.
NestedStarts(m, n) ==
    /\ (/\ Automatic(m)
        /\ modal[m].entity # Null
        /\ paused = 0
        /\ ModalStart(m))
       => /\ paused' = 1
          /\ updateWhenPaused'[modal[m].entity] = 1
    /\ (/\ m # n
        /\ Automatic(m)
        /\ Automatic(n)
        /\ StartedAt(m, 0)
        /\ ~modal[m].destroyed
        /\ paused = 1
        /\ ModalStart(n))
       => paused' = 2

\* The first modal is destroyed while the second holds the pause level 2.
NestedDestroy(m, n) ==
    /\ Overlapping(m, n, 0)
    /\ ~modal[m].destroyed
    /\ ~modal[n].destroyed
    /\ paused = 2
    /\ ModalDestroy(m)

\* C21: with the pause level 0 a first modal starts (the level becomes 1,
\* its owner is exempt at 1), then a second modal starts (the level becomes
\* 2); when the first modal is destroyed while the level is 2, the level
\* stays 2 and the skip is written to the log.
NestedSkipLogged ==
    [][\A m, n \in Modals :
         /\ NestedStarts(m, n)
         /\ NestedDestroy(m, n) => /\ paused' = 2
                                   /\ modal'[m].warned
      ]_vars

\* C21 as amended: in the same scenario the level stays 2 when the first
\* modal is destroyed, and nothing is written to the log.
NestedSkipSilent ==
    [][\A m, n \in Modals :
         /\ NestedStarts(m, n)
         /\ NestedDestroy(m, n) => /\ paused' = 2
                                   /\ ~modal'[m].warned
      ]_vars

\* The first of two nested modals was destroyed and the level is still 2.
NestedSkipReached ==
    \E m, n \in Modals :
        /\ Overlapping(m, n, 0)
        /\ modal[m].entity # Null
        /\ updateWhenPaused[modal[m].entity] = 1
        /\ modal[m].destroyed
        /\ ~modal[n].destroyed
        /\ ~modal[m].warned
        /\ paused = 2

\* C22: destroy of a modal sets the pause level to the level that was in
\* effect when the modal started if the pause level equals the level the
\* modal set on start, and leaves the pause level as it is otherwise.
DestroyRestoresOwnLevel ==
    [][\A m \in Modals :
         ModalDestroy(m)
         => IF paused = modal[m].pauseLevel
            THEN paused' = modal[m].oldPauseLevel[1]
            ELSE paused' = paused
      ]_vars

\* One modal restored the level 1 it started at; the other, started at level
\* 0, was destroyed at another level than its own and restored nothing.
DestroyRestoredReached ==
    \E m, n \in Modals :
        /\ m # n
        /\ StartedAt(m, 1)
        /\ modal[m].destroyed
        /\ StartedAt(n, 0)
        /\ modal[n].destroyed
        /\ paused = 1

\* m and n overlap from level c on and m, the first started, is the first
\* destroyed.
OutOfOrder(m, n, c) ==
    /\ Overlapping(m, n, c)
    /\ paused = c + 2
    /\ ~modal[n].destroyed

\* Both have been destroyed, m first.
ClosedOutOfOrder(m, n, c) ==
    /\ Overlapping(m, n, c)
    /\ modal[m].destroyed
    /\ modal[n].destroyed
    /\ paused = c + 1

\* C23: after modal 1 and modal 2 started in that order from level L and
\* were destroyed in that order, the pause level is not L, and no further
\* destroy of the two brings it back to L.
OutOfOrderNeverRestores ==
    [][\A m, n \in Modals, c \in Levels :
         /\ (OutOfOrder(m, n, c) /\ modal[m].destroyed /\ ModalDestroy(n))
            => paused' # c
         /\ \A k \in {m, n} :
               (ClosedOutOfOrder(m, n, c) /\ ModalDestroy(k)) => paused' # c
      ]_vars

\* C23 as amended: for two modals without a target level, after modal 1 and
\* modal 2 started in that order from level L and were destroyed in that
\* order, the pause level is L + 1; a further destroy of modal 2 leaves it
\* there and a further destroy of modal 1 sets it to L.
OutOfOrderLeavesNext ==
    [][\A m, n \in Modals, c \in Levels :
         /\ (OutOfOrder(m, n, c) /\ ~modal[m].destroyed /\ ModalDestroy(m))
            => paused' = c + 2
         /\ (OutOfOrder(m, n, c) /\ modal[m].destroyed /\ ModalDestroy(n))
            => paused' = c + 1
         /\ (ClosedOutOfOrder(m, n, c) /\ ModalDestroy(n)) => paused' = c + 1
         /\ (ClosedOutOfOrder(m, n, c) /\ ModalDestroy(m)) => paused' = c
      ]_vars

\* Two modals closed in the order they started in, from level 1.
OutOfOrderReached == \E m, n \in Modals : ClosedOutOfOrder(m, n, 1)

\* The update events the step adds to the log while a pass is running:
\* hooks of components and updates of child entities.
Updated == {k \in Len(log) + 1..Len(log') : log'[k].op = "update"}

\* C24: the update hooks of the components of an entity run in a frame only
\* if the updateWhenPaused of that entity is at least the pause level; so it
\* is for a child entity updated through the pass of its parent.
UpdateOnlyWhenExempt ==
    [][~Idle => \A k \in Updated :
                    updateWhenPaused[log'[k].ent] >= paused]_vars

\* C24 as amended: the pause level keeps back only the entity the object
\* manager updates.  The update hooks of an entity run in a frame only if
\* the updateWhenPaused of the entity at the root of the pass is at least
\* the pause level, and a child entity in a slot the pass reaches is
\* updated over its whole list whatever its own updateWhenPaused.
UpdateWhenRootExempt ==
    [][~Idle =>
         /\ \A k \in Updated : updateWhenPaused[stack[1].ent] >= paused
         /\ (/\ InPhase("update")
             /\ loopMore(Top)
             /\ At(components[Top.ent], Top.i) \in Ents
             /\ stack' # stack)
            => LET c == At(components[Top.ent], Top.i) IN
               /\ Len(stack') = Len(stack) + 1
               /\ stack'[Len(stack')] =
                     Frame(c, "update", 1, Len(components[c]))
      ]_vars

\* The hook of a component of the child e2 ran in the pass of e1 while the
\* pause level 1 was above e2's updateWhenPaused.
ChildUpdatedPausedReached ==
    /\ ~Idle
    /\ stack[1].ent = "e1"
    /\ paused = 1
    /\ updateWhenPaused["e1"] = 1
    /\ updateWhenPaused["e2"] = 0
    /\ \E k \in 1..Len(log) :
          /\ log[k].op = "update"
          /\ log[k].ent = "e2"
          /\ log[k].obj = "p1"

\* The browser has no WebGL context to give, the probe throws, or the
\* sprite library is undefined.
ProbeFails ==
    \/ ~page.env.class
    \/ page.env.webgl = "throws"
    \/ page.env.webgl = "null" /\ page.env.experimental # "context"
    \/ page.env.sprites = "undefined"

\* C25: when the probe fails or the sprite library is undefined, the
\* factory does not throw and returns the canvas2d renderer; the width and
\* height of the canvas are unchanged and no accelerated renderer is made;
\* so it is on every call.
FallbackLeavesNothing ==
    [][ProbeFails =>
         /\ ~page'.renderer.threw
         /\ page'.renderer.name = "canvas2d"
         /\ ~page'.renderer.glRenderer
         /\ page'.canvas = page.canvas
         /\ page'.renderer.canvas = page.canvas
      ]_vars

\* The factory fell back although the browser has WebGL contexts: the sprite
\* library is undefined, and the canvas would have been enlarged.
FallbackReached ==
    /\ page.renderer.name = "canvas2d"
    /\ page.env.class
    /\ page.env.webgl = "context"
    /\ page.env.sprites = "undefined"
    /\ ~page.smoothing
    /\ page.env.windowWidth = 4
    /\ page.env.windowHeight = 4
    /\ page.canvas = [width |-> 2, height |-> 2]

\* The last call made on the renderers, and the draw it made on back end b.
Called(name) == gfx.call # None /\ gfx.call[1].name = name
Args == gfx.call[1].args
Drawn(b) == gfx.back[b].drawn[1]
Drew == Called("fillRect") \/ Called("drawImage")

\* C26: after the same setOpacity and fillRect calls, the two back ends
\* fill the same rectangle with the same alpha, for every alpha of the
\* colour and every opacity.
SameFillOnBoth ==
    (/\ Called("fillRect")
     /\ gfx.open = <<>>
     /\ \A b \in Backends : gfx.back[b].surfaces = <<>>)
    => /\ Drawn("webgl").dst = Drawn("canvas2d").dst
       /\ Drawn("webgl").alpha = Drawn("canvas2d").alpha

\* C27: drawImage(source, sx, sy, sw, sh, dx, dy, dw, dh) blits the
\* rectangle of size sw x sh at the atlas entry's x + sx, y + sy to the
\* rectangle of size dw x dh at (dx, dy), on both back ends.
DrawImageBlits ==
    Called("drawImage") =>
        \A b \in Backends :
            /\ Drawn(b).src =
                  Rectangle(Args[1].x + Args[2].x, Args[1].y + Args[2].y,
                            Args[2].width, Args[2].height)
            /\ Drawn(b).dst = Args[3]

\* The target draw calls are to go to: the surface of the last setContext
\* that no restoreContext has matched, the original target when there is
\* none.
Redirected(b) ==
    IF gfx.open = <<>> THEN Screen
    ELSE gfx.back[b].surfaces[gfx.open[Len(gfx.open)]]

\* C28: after setContext(s) every draw goes to s until restoreContext, and
\* after restoreContext draws go to the target that was current before that
\* setContext, for every sequence of paired calls, nested pairs included.
ContextFollowsPairs ==
    Drew => \A b \in Backends : Drawn(b).target = Redirected(b)

\* C29: draws redirected by setContext to a surface that createSurface
\* returned do not change the canvas of the renderer, on both back ends.
SurfaceIsOffScreen ==
    (Drew /\ gfx.open # <<>>) =>
        \A b \in Backends : Drawn(b).canvas # Screen

\* The slots of e that hold a component with onParentCollided, ascending.
RECURSIVE collisionSlots(_, _)
collisionSlots(e, i) ==
    IF i > Len(components[e]) THEN <<>>
    ELSE (IF components[e][i] \in Plain THEN <<i>> ELSE <<>>)
         \o collisionSlots(e, i + 1)

\* C30: Entity.collided without a data object raises before any hook runs
\* and before onCollide; with a data object it invokes onParentCollided on
\* every live component that has it, in list order, with data.entity the
\* entity and data.parent its parent, and then the entity's onCollide, if
\* it has one, with data.other.
CollidedProtocol ==
    [][\A e \in Ents, data \in {None, Some("e3"), Some("e1")},
          onCollide \in BOOLEAN :
          Collided(e, data, onCollide) =>
            LET events == SubSeq(log', 2, Len(log'))
                slots == collisionSlots(e, 1)
                n == Len(slots)
            IN IF data = None
               THEN /\ Len(events) = 1
                    /\ events[1].op = "throw"
               ELSE /\ Len(events) = n + (IF onCollide THEN 1 ELSE 0)
                    /\ \A k \in 1..n :
                          /\ events[k].op = "onParentCollided"
                          /\ events[k].obj = components[e][slots[k]]
                          /\ events[k].at = slots[k]
                          /\ events[k].ent = e
                          /\ events[k].parent = parent[e]
                    /\ onCollide =>
                          /\ events[n + 1].op = "onCollide"
                          /\ events[n + 1].obj = data[1]
      ]_vars

\* collided(data) ran on e2, a child of e1 whose list holds a null slot and
\* two components with the hook, and ended with e2's onCollide.
CollidedReached ==
    /\ Len(log) = 4
    /\ log[1] = Ev("collided", "e2", Null, 0)
    /\ parent["e2"] = "e1"
    /\ \E i \in 1..Len(components["e2"]) : components["e2"][i] = Null
    /\ log[2].op = "onParentCollided"
    /\ log[3].op = "onParentCollided"
    /\ log[3].parent = "e1"
    /\ log[4].op = "onCollide"
    /\ log[4].obj = "e3"

\* C37: under last-opened-first-closed use, from the level L at which the
\* first modal starts, the pause level is L plus the number of modals that
\* are started and not yet destroyed: L + n after n starts, L + n - k
\* after the k-th destroy, L again after the last.
StackedLevels ==
    LET all == {StackModals[i] : i \in 1..Len(StackModals)}
        n == Cardinality({m \in all : Started(m)})
        k == Cardinality({m \in all : Started(m) /\ modal[m].destroyed})
    IN Started("m1") => paused = modal["m1"].oldPauseLevel[1] + n - k

\* Three modals were started from level 0 and all three destroyed again.
StackUnwoundReached ==
    /\ \A i \in 1..3 : /\ Started(StackModals[i])
                        /\ modal[StackModals[i]].destroyed
                        /\ modal[StackModals[i]].pauseLevel = i
    /\ paused = 0

\* C40: a call of a modal's destroy leaves updateWhenPaused of every
\* entity, its owner included, as it was, whether it restores the pause
\* level or returns early.
DestroyKeepsExemption ==
    [][\A m \in Modals :
          (modal[m].made /\ modal[m].oldPauseLevel # None /\ ModalDestroy(m))
             => updateWhenPaused' = updateWhenPaused]_vars

\* Modal m1 of e1 and modal m2 of e2 were started in this order and
\* destroyed in this order: the destroy of m1 returned early, that of m2
\* restored level 1, and both owners keep the level set on start.
ExemptionKeptReached ==
    /\ modal["m1"].entity = "e1" /\ modal["m1"].destroyed
    /\ modal["m2"].entity = "e2" /\ modal["m2"].destroyed
    /\ modal["m1"].pauseLevel = 1 /\ modal["m2"].pauseLevel = 2
    /\ paused = 1
    /\ updateWhenPaused["e1"] = 1
    /\ updateWhenPaused["e2"] = 2

\* C31: collidesWith with settings whose entity is not an entity, whose
\* entities is not an array, or that name no target at all writes to the
\* log, returns null and invokes no callback; collidesWithGroup with a
\* non-array writes to the log and invokes no callback.
UnrecognizedLoggedNoOp ==
    /\ (query.op = "collidesWith" /\ query.settings \in Unrecognized)
          => /\ query.warned
             /\ query.result = NullResult
             /\ query.called = <<>>
    /\ (query.op = "collidesWithGroup" /\ query.settings.form = "notArray")
          => /\ query.warned
             /\ query.called = <<>>

\* C34: every call of attach and every call of remove returns the entity
\* it was called on, whatever the argument.
ReturnsItself ==
    [][/\ \A r \in ReturnPairs, force \in BOOLEAN :
             Attach(r[1], r[2], force)
                => attach(r[1], r[2], force).returned = r[1]
       /\ \A r \in ReturnPairs \cup {<<"e1", Null>>, <<"e2", Null>>} :
             Remove(r[1], r[2]) => remove(r[1], r[2]).returned = r[1]
      ]_vars

\* e and its ancestors.
RECURSIVE UpFrom(_)
UpFrom(e) == IF e = Null THEN {} ELSE {e} \cup UpFrom(parent[e])

\* this or one of its ancestors has been added to the game.
LiveTree(this) == \E a \in UpFrom(this) : isAdded[a]

\* What a successful this.attach(child) leaves behind.
AttachedInOrder(this, child) ==
    LET n == Len(components[this]) + 1
        at(op) == {k \in 1..Len(log') : /\ log'[k].op = op
                                        /\ log'[k].ent = this
                                        /\ log'[k].obj = child}
    IN /\ Len(components'[this]) = n
       /\ components'[this][n] = child
       /\ parent'[child] = this
       /\ at("append") = {2}
       /\ at("setParent") = {3}
       /\ at("init") = IF HasHook(child, "init") THEN {4} ELSE {}
       /\ at("attached") # {}
       /\ \A i \in at("init"), j \in at("attached") : i < j
       /\ \A i \in at("attached"), j \in at("start") : i < j
       /\ at("start") # {} <=> LiveTree(this)

\* C33: a successful attach appends the child, sets child.parent, calls
\* init, then attached, and only then start if the tree is live; a modal
\* component started by attach has its owner set, so its start exempts
\* the owner at the level it pauses the game at.
AttachStepsInOrder ==
    [][/\ \A r \in AttachPairs :
             (Attach(r[1], r[2], FALSE) /\ ~attachRejected(r[2], FALSE))
                => AttachedInOrder(r[1], r[2])
       /\ \A e \in AttachEnts :
             (AttachModal(e) /\ ~attachRejected("p1", FALSE))
                => /\ AttachedInOrder(e, "p1")
                   /\ modal'["m1"].entity = e
                   /\ LiveTree(e)
                         => /\ modal'["m1"].oldPauseLevel = Some(paused)
                            /\ paused' = paused + 1
                            /\ updateWhenPaused'[e] = paused'
      ]_vars

\* The modal component was attached to e2, a child of the live entity e1:
\* init, attached and start ran in this order and the start paused the game
\* and exempted e2.
AttachModalStartedReached ==
    /\ Len(log) = 6
    /\ log[1] = Ev("attach", "e2", "p1", 0)
    /\ log[4].op = "init" /\ log[5].op = "attached" /\ log[6].op = "start"
    /\ parent["e2"] = "e1" /\ isAdded["e1"]
    /\ modal["m1"].entity = "e2"
    /\ paused = 1
    /\ updateWhenPaused["e2"] = 1

\* The hook calls of the last traversal.
HookCalls == {k \in 1..Len(log) : "sees" \in DOMAIN log[k]}

\* C35: every hook called by start, update, draw / postDraw and destroy
\* sees data.entity equal to the entity whose list holds the component,
\* also after a sibling that is an entity ran its traversal on the data.
HooksSeeOwner ==
    \A k \in HookCalls :
       /\ log[k].sees = log[k].ent
       /\ components[log[k].ent][log[k].at] = log[k].obj

\* A traversal of e1 called p2's hook after the traversal of the child
\* entity e2 had stamped the data for its own component p1.
StampedAfterChildReached ==
    \E i \in HookCalls, j \in HookCalls :
       /\ i < j
       /\ log[i].ent = "e2" /\ log[i].obj = "p1" /\ log[i].sees = "e2"
       /\ log[j].ent = "e1" /\ log[j].obj = "p2" /\ log[j].sees = "e1"
       /\ log[j].op = "postDraw"

\* The slots of e that hold a component, ascending.
RECURSIVE liveSlots(_, _)
liveSlots(e, i) ==
    IF i > Len(components[e]) THEN <<>>
    ELSE (IF components[e][i] # Null THEN <<i>> ELSE <<>>)
         \o liveSlots(e, i + 1)

\* The places in the new log of the events of entity e with operation op.
NewEventsOf(e, op) ==
    {k \in 1..Len(log') : log'[k].op = op /\ log'[k].ent = e}

\* C36: E.remove(c) of an entity c in E's list calls destroy on every live
\* component of c once, in c's list order, before c.parent is cleared and
\* c's slot is nulled; c's list and the parents of its components stay.
RemoveDestroysFirst ==
    [][\A r \in {q \in RemovePairs : q[2] \in Ents} :
          LET E == r[1]
              c == r[2]
              index == indexOf(components[E], c)
              slots == liveSlots(c, 1)
              calls == NewEventsOf(c, "destroy")
              place(n) == CHOOSE k \in calls :
                             Cardinality({j \in calls : j < k}) = n - 1
          IN (Remove(E, c) /\ index # 0) =>
               /\ Cardinality(calls) = Len(slots)
               /\ \A n \in 1..Len(slots) :
                     /\ log'[place(n)].at = slots[n]
                     /\ log'[place(n)].obj = components[c][slots[n]]
               /\ \A k \in calls, j \in NewEventsOf(E, "clearParent")
                                        \cup NewEventsOf(E, "null") : k < j
               /\ NewEventsOf(E, "clearParent") # {}
               /\ NewEventsOf(E, "null") # {}
               /\ parent'[c] = Null
               /\ components'[E][index] = Null
               /\ components'[c] = components[c]
               /\ \A n \in 1..Len(slots) :
                     parent'[components[c][slots[n]]] = c
      ]_vars

\* e1.remove(e2) ran while e2 held a null slot, the entity e3 and p1:
\* e3 and p1 were destroyed in this order and still name e2 as parent.
RemoveCascadeReached ==
    /\ Len(log) >= 6
    /\ log[1] = Ev("remove", "e1", "e2", 0)
    /\ components["e2"] = <<Null, "e3", "p1">>
    /\ log[2].op = "destroy" /\ log[2].obj = "e2"
    /\ log[3] = Ev("destroy", "e2", "e3", 2)
    /\ log[Len(log) - 2] = Ev("destroy", "e2", "p1", 3)
    /\ log[Len(log) - 1].op = "clearParent"
    /\ parent["e2"] = Null /\ parent["e3"] = "e2" /\ parent["p1"] = "e2"

\* C39: E.remove(c) called again right after E.remove(c) calls no destroy
\* and changes neither the lists nor the parents.
RemoveIsIdempotent ==
    [][\A r \in TreePairs :
          (log # <<>> /\ log[1] = Ev("remove", r[1], r[2], 0)
             /\ Remove(r[1], r[2]))
          => /\ \A k \in 1..Len(log') : log'[k].op # "destroy"
             /\ components' = components
             /\ parent' = parent
      ]_vars

\* The log ends with a hook that threw.
Threw == log # <<>> /\ log[Len(log)].op = "throw"

\* Entity e has, in the new log, an event that only the end of its pass
\* writes: the timer increment, the compaction or the transform pop.
Finished(e) ==
    \E k \in 1..Len(log') :
       /\ log'[k].ent = e
       /\ log'[k].op \in {"timer", "clean", "transformPostDraw"}

\* C32: a hook that throws ends the pass: nothing more is called in it (the
\* next event belongs to a new call from outside), and for the entity of
\* the hook and every entity whose pass called it the timer is not
\* incremented, the list is not compacted and the transform is not popped.
ThrowAbortsPass ==
    [][/\ (UpdateThrow \/ DrawThrow \/ PostDrawThrow) =>
             /\ Idle'
             /\ timer' = timer
             /\ components' = components
             /\ depth' = depth
             /\ \A k \in 1..Len(stack) :
                   /\ ~Finished(stack[k].ent)
                   /\ timer'[stack[k].ent] = 0
       /\ Threw =>
             /\ Idle
             /\ ~(/\ Len(log') > Len(log)
                  /\ SubSeq(log', 1, Len(log)) = log)
      ]_vars

\* The update hook of p1 threw in the update of e1, whose list is
\* <<null, p1, e2>>: the pass is over, e2 at the next index was not
\* updated, no timer moved and the null slot is still there.
UpdateThrewReached ==
    /\ Threw
    /\ log[1].op = "updateCall" /\ log[1].ent = "e1"
    /\ log[Len(log)] = Ev("throw", "e1", "p1", 2)
    /\ components["e1"] = <<Null, "p1", "e2">>
    /\ timer = NoTime
    /\ \A k \in 1..Len(log) : log[k].ent # "e2" /\ log[k].obj # "e2"

\* The start calls the new log holds for the component in slot i of e.
StartsOf(e, i) ==
    Cardinality({k \in 1..Len(log') :
                    log'[k] = Ev("start", e, components[e][i], i)})

\* C38: a child attached while neither the entity nor an ancestor is live
\* gets no start from that attach; when the entity is started later, by
\* the scheduler adding it or by its attach into a live tree, each of its
\* children gets exactly one start.
StartedOnceLater ==
    [][\A r \in TreePairs, force \in BOOLEAN :
          LET this == r[1]
              child == r[2]
          IN /\ (/\ Attach(this, child, force)
                 /\ ~attachRejected(child, force)
                 /\ ~LiveTree(this))
                => \A k \in 1..Len(log') : log'[k].op # "start"
             /\ \A i \in 1..(IF child \in Ents THEN Len(components[child])
                               ELSE 0) :
                   (/\ components[child][i] # Null
                    /\ \/ SchedulerAdd(child)
                       \/ /\ Attach(this, child, force)
                          /\ ~attachRejected(child, force)
                          /\ LiveTree(this))
                   => StartsOf(child, i) = 1
      ]_vars

====
